---- MODULE Spec2Model ----
(***************************************************************************)
(* Verification model of the NOAA-FLPS geospatial unification pipeline.    *)
(*                                                                         *)
(* The programs of the repository are modelled, each as its own            *)
(* specification over its own variables:                                   *)
(*   Spec      - the yearly HRRR processor, data/scripts/HRRR/process_hrrr *)
(*   SpecModis - the unified MODIS converter with its process pool,        *)
(*               data/scripts/processing/process_modis.py                  *)
(*   SpecOrch  - the orchestrator scripts/unified_data_conversion.py       *)
(*               running the processing scripts as subprocesses            *)
(*   SpecLayouts - the yearly HRRR processor on nested folder layouts      *)
(*   SpecQA    - the quality filter and scaling of one MODIS file          *)
(*   SpecStatic - the elevation and fire converters, process_srtm.py and   *)
(*               process_calfire.py                                        *)
(*   SpecWeather - the unified HRRR converter, processing/process_hrrr.py  *)
(*   SpecGeotiff - the MODIS GeoTIFF processor, MODIS/modis_processor.py   *)
(*   SpecDownload - the HRRR downloader, HRRR/download_hrrr_data.py        *)
(***************************************************************************)
EXTENDS Integers, Sequences, FiniteSets, TLC

\* ------------------------------------------------------------------------
\* Bounds of the model
\* ------------------------------------------------------------------------
\* largest number of GRIB2 files found under the input directory
MaxFiles == 3
\* the GRIB messages carry a valid time in 1..MaxTime
MaxTime == 2
\* largest number of HDF files found in the MODIS directory
MaxHdf == 3
\* largest number of HDF files the GeoTIFF processor finds in its data path
MaxTiles == 2
\* size of the process pool (os.cpu_count())
MaxWorkers == 2
\* number of cells of a clipped MODIS raster
MaxCells == 2
\* largest number of rows and of columns of the master grid
MaxRows == 2
MaxCols == 2
\* number of days on the time axis of the fire masks
MaxDays == 1

\* runs of a program on the same folders
MaxRuns == 2
\* months of the calendar the downloader is asked for
MaxMonths == 2

\* ------------------------------------------------------------------------
\* Generic helpers
\* ------------------------------------------------------------------------
Min(a, b) == IF a < b THEN a ELSE b

Range(s) == {s[i] : i \in 1..Len(s)}

\* lexical order on sequences of character codes (Python str comparison)
RECURSIVE LexLess(_, _)
LexLess(a, b) ==
    IF a = <<>> THEN b # <<>>
    ELSE IF b = <<>> THEN FALSE
    ELSE IF Head(a) # Head(b) THEN Head(a) < Head(b)
    ELSE LexLess(Tail(a), Tail(b))

\* ========================================================================
\* Yearly HRRR processor: data/scripts/HRRR/process_hrrr.py
\* ========================================================================

\* CONFIG['LEVEL_FILTERS'] in dict insertion order
LEVEL_FILTERS == <<"2m", "10m", "surface">>

Levels == Range(LEVEL_FILTERS)

\* value of the heightAboveGround coordinate a level group carries
\* (the surface group has no such coordinate)
NoCoord == 0 - 1

LevelCoord(level_name) ==
    CASE level_name = "2m" -> 2
      [] level_name = "10m" -> 10
      [] OTHER -> NoCoord

\* names of the date folders below the input directory, as character codes
DirNames == { <<2,0,2,0,0,1>>, <<2,0,2,1,0,1>> }

\* What a GRIB2 file holds for each level when it is structurally sound:
\*   "data"    messages of that level are present
\*   "empty"   the filter matches nothing, cfgrib returns a dataset
\*             without data variables
\*   "missing" the filter matches nothing and cfgrib raises
\*             (KeyError / ValueError / DatasetBuildError)
LevelContents ==
    { [l \in Levels |-> "data"],
      [l \in Levels |-> CASE l = "2m" -> "data"
                          [] l = "10m" -> "missing"
                          [] OTHER -> "empty"],
      [l \in Levels |-> IF l = "10m" THEN "empty" ELSE "missing"] }

\* a file on disk: its path (folder, name), whether it is truncated or
\* zero-byte (corrupt), its per-level content and the valid time of its
\* messages
Contents ==
    { [corrupt |-> c, lv |-> k, t |-> t] :
        c \in BOOLEAN, k \in LevelContents, t \in 1..MaxTime }

HasNoData(k) == \A l \in Levels : k[l] # "data"

\* a corrupt file has no readable content and a file without any data has no
\* valid time that is ever read: one representative of each
FileContents ==
    { c \in Contents :
        /\ c.corrupt => (c.t = 1 /\ c.lv = [l \in Levels |-> "data"])
        /\ HasNoData(c.lv) => c.t = 1 }

NoneDS == [some |-> FALSE, time |-> 0, vars |-> {}, coord |-> NoCoord, src |-> 0]

\* the exceptions xr.open_dataset can raise
Exceptions == {"missing", "eof", "cfgerr"}

\* xr.open_dataset(grib_path, engine="cfgrib", filter_by_keys=filter_kwargs):
\* a filter with an unknown key fails for every file, a truncated or
\* zero-byte file raises PrematureEndOfFileError / EOFError for every filter
open_dataset(f, bad, level_name) ==
    IF level_name \in bad THEN "cfgerr"
    ELSE IF f.corrupt THEN "eof"
    ELSE f.lv[level_name]

\* the clipped dataset of one level group
LevelDS(f, level_name) ==
    [some |-> TRUE, time |-> f.t, vars |-> {level_name},
     coord |-> LevelCoord(level_name), src |-> f.name]

\* an inner handler that lets the error of a missing level through
InnerCatches_notMissing(exc) == exc # "missing"

\* the inner handler is `except Exception`: it catches every exception class
InnerCatches(exc) == TRUE

\* the outer handler `except (PrematureEndOfFileError, EOFError)`
OuterCorrupted(exc) == exc = "eof"

\* the loop over CONFIG['LEVEL_FILTERS'].items() inside the outer try
RECURSIVE LevelLoop(_, _, _, _)
LevelLoop(f, bad, i, level_datasets) ==
    IF i > Len(LEVEL_FILTERS)
    THEN [raised |-> "none", lds |-> level_datasets, opens |-> i - 1]
    ELSE LET r == open_dataset(f, bad, LEVEL_FILTERS[i]) IN
         IF r \in Exceptions
         THEN IF InnerCatches(r)
              THEN LevelLoop(f, bad, i + 1, level_datasets)
              ELSE [raised |-> r, lds |-> level_datasets, opens |-> i]
         ELSE IF r = "data"
              THEN LevelLoop(f, bad, i + 1,
                             Append(level_datasets, LevelDS(f, LEVEL_FILTERS[i])))
              ELSE LevelLoop(f, bad, i + 1, level_datasets)

\* first coordinate value found in the groups, in order
RECURSIVE FirstCoord(_)
FirstCoord(lds) ==
    IF lds = <<>> THEN NoCoord
    ELSE IF Head(lds).coord # NoCoord THEN Head(lds).coord
    ELSE FirstCoord(Tail(lds))

\* a merge in which the last group holding a coordinate overrides the others
merge_lastwins(lds) ==
    [some |-> TRUE, time |-> lds[1].time,
     vars |-> UNION {lds[i].vars : i \in 1..Len(lds)},
     coord |-> LET S == {i \in 1..Len(lds) : lds[i].coord # NoCoord} IN
               IF S = {} THEN NoCoord
               ELSE lds[CHOOSE i \in S : \A j \in S : j <= i].coord,
     src |-> lds[1].src]

\* xr.merge(level_datasets, compat='override'): the variables of all groups,
\* conflicting coordinates taken from the first group that has them
merge(lds) ==
    [some |-> TRUE, time |-> lds[1].time,
     vars |-> UNION {lds[i].vars : i \in 1..Len(lds)},
     coord |-> FirstCoord(lds), src |-> lds[1].src]

\* a logging call: level, message kind and what it names
Ev(lvl, msg, year, file, n) ==
    [lvl |-> lvl, msg |-> msg, year |-> year, file |-> file, n |-> n,
     total |-> 0]

\* process_single_grib_file(grib_path, bbox): the dataset returned (NoneDS
\* for None), the log records emitted and the number of open attempts
process_single_grib_file(f, bad) ==
    LET r == LevelLoop(f, bad, 1, <<>>) IN
    IF r.raised = "none"
    THEN IF r.lds = <<>>
         THEN [ds |-> NoneDS, events |-> <<>>, opens |-> r.opens]
         ELSE [ds |-> merge(r.lds), events |-> <<>>, opens |-> r.opens]
    ELSE IF OuterCorrupted(r.raised)
         THEN [ds |-> NoneDS,
               events |-> <<Ev("warning", "corrupted_file", <<>>, f.name, 0)>>,
               opens |-> r.opens]
         ELSE [ds |-> NoneDS,
               events |-> <<Ev("error", "unexpected_error", <<>>, f.name, 0)>>,
               opens |-> r.opens]

\* `if dataset:` - a Dataset is true when it has data variables
Truthy(ds) == ds.some /\ ds.vars # {}

\* the path separator: '/' sorts before every digit and letter
Sep == 0 - 1

\* folders that can lie between the input directory and the date folders
\* (character codes of one-letter names), matched by the '**' of the pattern
TopNames == { <<10>>, <<11>> }

\* the path of a file below the input directory, as character codes
Path(f) ==
    (IF f.top = <<>> THEN <<>> ELSE f.top \o <<Sep>>) \o f.dir \o <<Sep, f.name>>

\* order of two path strings
PathLess(p, q) == LexLess(Path(p), Path(q))

\* sorted(glob.glob(...)): the files in ascending order of path
RECURSIVE sorted(_)
sorted(S) ==
    IF S = {} THEN <<>>
    ELSE LET m == CHOOSE x \in S : \A y \in S \ {x} : PathLess(x, y)
         IN <<m>> \o sorted(S \ {m})

\* os.path.basename(os.path.dirname(f))[:4]
YearOf(f) == SubSeq(f.dir, 1, Min(4, Len(f.dir)))

\* position of a key in the dict, 0 when absent
KeyIndex(d, year) ==
    IF \E i \in 1..Len(d) : d[i].year = year
    THEN CHOOSE i \in 1..Len(d) : d[i].year = year
    ELSE 0

\* the grouping loop if a file replaced the list of its year
RECURSIVE GroupByYear_replace(_, _)
GroupByYear_replace(files, d) ==
    IF files = <<>> THEN d
    ELSE LET f == Head(files)
             k == KeyIndex(d, YearOf(f))
         IN IF k = 0
            THEN GroupByYear_replace(Tail(files),
                             Append(d, [year |-> YearOf(f), files |-> <<f>>]))
            ELSE GroupByYear_replace(Tail(files),
                             [d EXCEPT ![k].files = <<f>>])

\* the grouping loop: files_by_year as (year, file_list) items in insertion
\* order
RECURSIVE GroupByYear(_, _)
GroupByYear(files, d) ==
    IF files = <<>> THEN d
    ELSE LET f == Head(files)
             k == KeyIndex(d, YearOf(f))
         IN IF k = 0
            THEN GroupByYear(Tail(files),
                             Append(d, [year |-> YearOf(f), files |-> <<f>>]))
            ELSE GroupByYear(Tail(files),
                             [d EXCEPT ![k].files = Append(@, f)])

\* the sequence s in ascending order of time, equal times kept in their
\* order of arrival (sortby uses a stable sort)
RECURSIVE InsertByTime(_, _)
InsertByTime(sortedSeq, e) ==
    IF sortedSeq = <<>> THEN <<e>>
    ELSE IF e.time < Head(sortedSeq).time THEN <<e>> \o sortedSeq
    ELSE <<Head(sortedSeq)>> \o InsertByTime(Tail(sortedSeq), e)

\* the assembler without its sort
sortby_omitted(s) == s

RECURSIVE sortby_time(_)
sortby_time(s) ==
    IF s = <<>> THEN <<>>
    ELSE InsertByTime(sortby_time(SubSeq(s, 1, Len(s) - 1)), s[Len(s)])

\* xr.concat(datasets, dim="time"): every dataset becomes one step of the
\* time axis, in list order; nothing is merged or dropped
concat(datasets) ==
    [i \in 1..Len(datasets) |->
        [time |-> datasets[i].time, vars |-> datasets[i].vars,
         src |-> datasets[i].src]]

\* concat raises in xarray releases that refuse data variables present in
\* some datasets and absent from others
ConcatMayRaise(datasets) ==
    \E i, j \in 1..Len(datasets) : datasets[i].vars # datasets[j].vars

\* a folder below the input directory whose name is shorter than a year
ShortDirNames == { <<2,0>> }

\* the year keys the folders can produce
Years == {SubSeq(d, 1, Min(4, Len(d))) : d \in DirNames \cup ShortDirNames}

\* content of a destination path
Absent == [st |-> "absent", ds |-> <<>>]

VARIABLES
    found,              \* the GRIB2 files below the input directory
    bad_filters,        \* level filters whose filter_by_keys is misconfigured
    pc,                 \* position of main()
    grib_files,         \* sorted list of paths
    files_by_year,      \* dict year -> file list, in insertion order
    yi,                 \* index of the year being processed
    fi,                 \* index of the file within the year
    processed_datasets, \* datasets collected for the year
    final_ds,           \* the combined dataset of the year
    outputs,            \* output directory: year -> content of the .nc file
    total_success,      \* counter of yearly files created
    log,                \* the records emitted through logging
    opens,              \* per file name, the open attempts made on it
    \* --- unified MODIS converter ---
    hdf_found,          \* the HDF files in the MODIS directory
    mpc,                \* position of convert_modis_vegetation()
    hdf_files,          \* sorted list of HDF files
    futures,            \* per submitted file, the state of its future
    all_daily_datasets, \* results collected from the pool
    combined_ds,        \* the assembled time series
    mlog,               \* the records emitted through logging
    mexit,              \* exit status of the script, -1 while it runs
    \* --- orchestrator ---
    stages,             \* per script, what running it does
    opc,                \* position of the orchestrator's main()
    si,                 \* index of the script being run
    started,            \* scripts started so far, in order
    returncodes,        \* exit status of each script that has ended
    repo_scripts,       \* the stages whose script is the repository's
                        \* converter; any other script that exists leaves
                        \* data/unified alone
    olog,               \* what the orchestrator printed
    oexit,              \* exit status of the orchestrator, -1 while it runs
    \* --- quality filter of one MODIS file ---
    qa_da,              \* the 'pixel reliability' array, per cell
    var_das,            \* per vegetation variable, its array as opened
    qpc,                \* position within the filter-and-scale step
    qv,                 \* index of the vegetation variable being cleaned
    quality_mask,       \* per cell, whether its QA value is valid
    processed_vars,     \* the cleaned arrays, in order of processing
    \* --- elevation and fire converters ---
    master_grid,        \* what setup_master_grid() returned
    sprog,              \* which converter runs
    spc,                \* its position
    src_present,        \* whether the source files / folder exist
    src_value,          \* the constant value held by every source cell
    arrays,             \* the numpy arrays made so far, by name
    sds,                \* the xarray Dataset built
    unified,            \* data/unified: output name -> file content
    sexit,              \* exit status of the script, -1 while it runs
    s_runs,             \* data/unified as each earlier run of the converter left it
    \* --- unified HRRR converter ---
    w_found,            \* the GRIB2 files in the date folders
    wpc,                \* position of convert_hrrr_weather()
    w_files,            \* sorted list of paths
    wi,                 \* index of the file being processed
    all_reprojected_data, \* the reprojected datasets collected
    wlog,               \* the records emitted through logging
    wexit,              \* exit status of the script, -1 while it runs
    \* --- MODIS GeoTIFF processor ---
    g_found,            \* the HDF files in the data directory
    g_ok,               \* whether the data path and the GeoJSON exist
    gpc,                \* position of main()
    g_files,            \* sorted list of HDF files
    gfut,               \* per submitted file, the state of its worker call
    gres,               \* per submitted file, the result of its future
    tiffs,              \* output folders: path -> state of the GeoTIFF
    processed_count,    \* the three counters of main()
    skipped_count,
    error_count,
    g_run,              \* the run of the processor: its number, the outputs
                        \* the first run and this run found, and whether the
                        \* run before this one ended without an error
    g_seen,             \* per submitted file, the outputs its worker found
    \* --- HRRR downloader ---
    all_dates,          \* the timestamps of the requested range
    save_layout,        \* where the library saves the file of a date
    date_folders,       \* date -> whether <output_dir>/<date> held and holds
                        \* a GRIB2 file
    dpc,                \* position of main()
    grouped_dates,      \* the monthly batches
    di,                 \* index of the batch being processed
    download_thread,    \* the download thread of the batch
    result_container,   \* the dict shared with the download thread
    fetched,            \* the dates whose file the thread has saved
    total_downloaded_count,
    dlog                \* the records emitted through logging

yvars == <<found, bad_filters, pc, grib_files, files_by_year, yi, fi,
           processed_datasets, final_ds, outputs, total_success, log, opens>>

mvars == <<hdf_found, mpc, hdf_files, futures, all_daily_datasets,
           combined_ds, mlog, mexit>>

ovars == <<stages, opc, si, started, returncodes, repo_scripts, olog, oexit>>

qvars == <<qa_da, var_das, qpc, qv, quality_mask, processed_vars>>

svars == <<master_grid, sprog, spc, src_present, src_value, arrays, sds,
           unified, sexit, s_runs>>

wvars == <<w_found, wpc, w_files, wi, all_reprojected_data, wlog, wexit>>

gvars == <<g_found, g_ok, gpc, g_files, gfut, gres, tiffs, processed_count,
           skipped_count, error_count, g_run, g_seen>>

\* the variables of the programs added to the three above
dvars == <<all_dates, save_layout, date_folders, dpc, grouped_dates, di,
           download_thread, result_container, fetched,
           total_downloaded_count, dlog>>

\* the variables of the programs added to the three above
xvars == <<qvars, svars, wvars, gvars, dvars>>

vars == <<yvars, mvars, ovars, xvars>>

\* the quality filter is not running
QIdle ==
    /\ qa_da = <<>>
    /\ var_das = <<>>
    /\ qpc = "idle"
    /\ qv = 0
    /\ quality_mask = <<>>
    /\ processed_vars = <<>>

\* the files data/unified can hold
UnifiedNames == {"weather", "vegetation", "elevation", "fire"}

NoFile == [st |-> "absent", ds |-> <<>>]

\* the elevation and fire converters are not running
SIdle ==
    /\ master_grid = <<>>
    /\ sprog = "none"
    /\ spc = "idle"
    /\ src_present = FALSE
    /\ src_value = 0
    /\ arrays = <<>>
    /\ sds = <<>>
    /\ unified = [n \in UnifiedNames |-> NoFile]
    /\ sexit = 0 - 1
    /\ s_runs = <<>>

\* the unified HRRR converter is not running
WIdle ==
    /\ w_found = {}
    /\ wpc = "idle"
    /\ w_files = <<>>
    /\ wi = 0
    /\ all_reprojected_data = <<>>
    /\ wlog = <<>>
    /\ wexit = 0 - 1

\* the GeoTIFF processor is not running
GIdle ==
    /\ g_found = {}
    /\ g_ok = FALSE
    /\ gpc = "idle"
    /\ g_files = <<>>
    /\ gfut = <<>>
    /\ gres = <<>>
    /\ tiffs = <<>>
    /\ processed_count = 0
    /\ skipped_count = 0
    /\ error_count = 0
    /\ g_run = [n |-> 0, origin |-> <<>>, before |-> <<>>, clean |-> FALSE]
    /\ g_seen = <<>>

\* the keys a worker can have set in result_container
NoResult == [keys |-> {}, files |-> {}, error |-> "none"]

\* the HRRR downloader is not running
DIdle ==
    /\ all_dates = <<>>
    /\ save_layout = "none"
    /\ date_folders = <<>>
    /\ dpc = "idle"
    /\ grouped_dates = <<>>
    /\ di = 0
    /\ download_thread = "none"
    /\ result_container = NoResult
    /\ fetched = {}
    /\ total_downloaded_count = 0
    /\ dlog = <<>>

XIdle == QIdle /\ SIdle /\ WIdle /\ GIdle /\ DIdle

\* assignments of the files 1..n to date folders; the later folders hold
\* the lower file names, so that the order of paths is not the order of names
FolderChoices(n) ==
    { dirs \in [1..n -> DirNames] :
        \A i, j \in 1..n : i < j => ~LexLess(dirs[i], dirs[j]) }

\* the files a directory tree can hold: file i lies in the folder dirs[i]
FileSet(dirs, cont) ==
    { [top |-> <<>>, dir |-> dirs[i], name |-> i, corrupt |-> cont[i].corrupt,
       lv |-> cont[i].lv, t |-> cont[i].t] : i \in DOMAIN dirs }

\* the places of a tree whose date folders lie one level deeper
Places ==
    { [top |-> a, dir |-> d] : a \in TopNames, d \in DirNames }
        \cup { [top |-> <<10>>, dir |-> d] : d \in ShortDirNames }

PlaceLess(p, q) ==
    LexLess(p.top \o <<Sep>> \o p.dir, q.top \o <<Sep>> \o q.dir)

PlaceChoices(n) ==
    { pl \in [1..n -> Places] :
        \A i, j \in 1..n : i < j => ~PlaceLess(pl[i], pl[j]) }

\* file contents told apart by the grouping and the per-year loop: sound
\* with every level, sound with the 2m level only, corrupt
LayoutContents ==
    { c \in FileContents : c.t = 1 /\ c.lv["2m"] = "data" }

\* the files of such a tree: file i lies in <top>/<dir> of place pl[i]
LayoutSet(pl, cont) ==
    { [top |-> pl[i].top, dir |-> pl[i].dir, name |-> i,
       corrupt |-> cont[i].corrupt, lv |-> cont[i].lv, t |-> cont[i].t]
      : i \in DOMAIN pl }

\* A run starts with the files found and the filter configuration; a
\* misconfigured filter fails for every file whatever its valid time, so
\* such runs are started on files of one valid time only.
YInit ==
    /\ \E n \in 0..MaxFiles :
         \E dirs \in FolderChoices(n), cont \in [1..n -> FileContents] :
             found = FileSet(dirs, cont)
    /\ bad_filters \in (IF \A f \in found : f.t = 1 THEN {{}, {"10m"}} ELSE {{}})
    /\ pc = "start"
    /\ grib_files = <<>>
    /\ files_by_year = <<>>
    /\ yi = 0
    /\ fi = 0
    /\ processed_datasets = <<>>
    /\ final_ds = <<>>
    /\ outputs = [y \in Years |-> Absent]
    /\ total_success = 0
    /\ log = <<>>
    /\ opens = [i \in 1..(MaxFiles + 1) |-> 0]

\* the same start on a tree with intermediate folders
YInitLayouts ==
    /\ \E n \in 0..MaxFiles :
         \E pl \in PlaceChoices(n), cont \in [1..n -> LayoutContents] :
             found = LayoutSet(pl, cont)
    /\ bad_filters \in {{}, {"10m"}}
    /\ pc = "start"
    /\ grib_files = <<>>
    /\ files_by_year = <<>>
    /\ yi = 0
    /\ fi = 0
    /\ processed_datasets = <<>>
    /\ final_ds = <<>>
    /\ outputs = [y \in Years |-> Absent]
    /\ total_success = 0
    /\ log = <<>>
    /\ opens = [i \in 1..(MaxFiles + 1) |-> 0]

\* main(), lines 107-110: no file found, log an error and return
LocateNone ==
    /\ pc = "start"
    /\ sorted(found) = <<>>
    /\ grib_files' = <<>>
    /\ log' = Append(log, Ev("error", "no_files_found", <<>>, 0, 0))
    /\ pc' = "returned"
    /\ UNCHANGED <<mvars, ovars, xvars>>
    /\ UNCHANGED <<found, bad_filters, files_by_year, yi, fi,
                   processed_datasets, final_ds, outputs, total_success, opens>>

\* main(), lines 107-126: locate, group by year, reset the counter
LocateAndGroup ==
    /\ pc = "start"
    /\ sorted(found) # <<>>
    /\ grib_files' = sorted(found)
    /\ files_by_year' = GroupByYear(grib_files', <<>>)
    /\ log' = log \o << Ev("info", "found_files", <<>>, 0, Len(grib_files')),
                        Ev("info", "found_years", <<>>, 0, Len(files_by_year')) >>
    /\ total_success' = 0
    /\ yi' = 1
    /\ pc' = "year"
    /\ UNCHANGED <<mvars, ovars, xvars>>
    /\ UNCHANGED <<found, bad_filters, fi, processed_datasets, final_ds,
                   outputs, opens>>

\* top of `for year, file_list in files_by_year.items()`, lines 128-132
YearStart ==
    /\ pc = "year"
    /\ yi <= Len(files_by_year)
    /\ log' = Append(log, Ev("info", "processing_year", files_by_year[yi].year,
                             0, Len(files_by_year[yi].files)))
    /\ processed_datasets' = <<>>
    /\ fi' = 1
    /\ pc' = "file"
    /\ UNCHANGED <<mvars, ovars, xvars>>
    /\ UNCHANGED <<found, bad_filters, grib_files, files_by_year, yi, final_ds,
                   outputs, total_success, opens>>

\* the per-file loop if a file without a raster ended the loop of its year
ProcessFile_break ==
    /\ pc = "file"
    /\ fi <= Len(files_by_year[yi].files)
    /\ LET f == files_by_year[yi].files[fi]
           r == process_single_grib_file(f, bad_filters)
       IN /\ processed_datasets' =
                 IF Truthy(r.ds) THEN Append(processed_datasets, r.ds)
                 ELSE processed_datasets
          /\ log' = log \o r.events
          /\ opens' = [opens EXCEPT ![f.name] = @ + r.opens]
          /\ fi' = IF Truthy(r.ds) THEN fi + 1
                   ELSE Len(files_by_year[yi].files) + 1
    /\ UNCHANGED <<mvars, ovars, xvars>>
    /\ UNCHANGED <<found, bad_filters, pc, grib_files, files_by_year, yi,
                   final_ds, outputs, total_success>>

\* one iteration of the per-file loop, lines 133-137
ProcessFile ==
    /\ pc = "file"
    /\ fi <= Len(files_by_year[yi].files)
    /\ LET f == files_by_year[yi].files[fi]
           r == process_single_grib_file(f, bad_filters)
       IN /\ processed_datasets' =
                 IF Truthy(r.ds) THEN Append(processed_datasets, r.ds)
                 ELSE processed_datasets
          /\ log' = log \o r.events
          /\ opens' = [opens EXCEPT ![f.name] = @ + r.opens]
    /\ fi' = fi + 1
    /\ UNCHANGED <<mvars, ovars, xvars>>
    /\ UNCHANGED <<found, bad_filters, pc, grib_files, files_by_year, yi,
                   final_ds, outputs, total_success>>

\* the empty year if it ended the run instead of the iteration
SkipYear_return ==
    /\ pc = "file"
    /\ fi > Len(files_by_year[yi].files)
    /\ processed_datasets = <<>>
    /\ log' = Append(log, Ev("warning", "no_valid_datasets",
                             files_by_year[yi].year, 0, 0))
    /\ pc' = "returned"
    /\ UNCHANGED <<mvars, ovars, xvars>>
    /\ UNCHANGED <<found, bad_filters, grib_files, files_by_year, yi, fi,
                   processed_datasets, final_ds, outputs, total_success, opens>>

\* lines 139-141: no dataset for the year, warn and go to the next year
SkipYear ==
    /\ pc = "file"
    /\ fi > Len(files_by_year[yi].files)
    /\ processed_datasets = <<>>
    /\ log' = Append(log, Ev("warning", "no_valid_datasets",
                             files_by_year[yi].year, 0, 0))
    /\ yi' = yi + 1
    /\ pc' = "year"
    /\ UNCHANGED <<mvars, ovars, xvars>>
    /\ UNCHANGED <<found, bad_filters, grib_files, files_by_year, fi,
                   processed_datasets, final_ds, outputs, total_success, opens>>

\* lines 143-145: concat along time and sort by time
Combine ==
    /\ pc = "file"
    /\ fi > Len(files_by_year[yi].files)
    /\ processed_datasets # <<>>
    /\ final_ds' = sortby_time(concat(processed_datasets))
    /\ log' = Append(log, Ev("info", "combined", files_by_year[yi].year, 0,
                             Len(processed_datasets)))
    /\ pc' = "save"
    /\ UNCHANGED <<mvars, ovars, xvars>>
    /\ UNCHANGED <<found, bad_filters, grib_files, files_by_year, yi, fi,
                   processed_datasets, outputs, total_success, opens>>

\* lines 146-148: concat raised, log the error and go to the next year
CombineFails ==
    /\ pc = "file"
    /\ fi > Len(files_by_year[yi].files)
    /\ processed_datasets # <<>>
    /\ ConcatMayRaise(processed_datasets)
    /\ log' = Append(log, Ev("error", "combine_failed",
                             files_by_year[yi].year, 0, 0))
    /\ yi' = yi + 1
    /\ pc' = "year"
    /\ UNCHANGED <<mvars, ovars, xvars>>
    /\ UNCHANGED <<found, bad_filters, grib_files, files_by_year, fi,
                   processed_datasets, final_ds, outputs, total_success, opens>>

\* the successful save if the counter were not incremented
SaveYear_uncounted ==
    /\ pc = "save"
    /\ outputs' = [outputs EXCEPT ![files_by_year[yi].year] =
                       [st |-> "complete", ds |-> final_ds]]
    /\ log' = Append(log, Ev("info", "saved", files_by_year[yi].year, 0, 0))
    /\ yi' = yi + 1
    /\ pc' = "year"
    /\ UNCHANGED <<mvars, ovars, xvars>>
    /\ UNCHANGED <<found, bad_filters, grib_files, files_by_year, fi,
                   processed_datasets, final_ds, total_success, opens>>

\* lines 150-158: to_netcdf succeeds
SaveYear ==
    /\ pc = "save"
    /\ outputs' = [outputs EXCEPT ![files_by_year[yi].year] =
                       [st |-> "complete", ds |-> final_ds]]
    /\ log' = Append(log, Ev("info", "saved", files_by_year[yi].year, 0, 0))
    /\ total_success' = total_success + 1
    /\ yi' = yi + 1
    /\ pc' = "year"
    /\ UNCHANGED <<mvars, ovars, xvars>>
    /\ UNCHANGED <<found, bad_filters, grib_files, files_by_year, fi,
                   processed_datasets, final_ds, opens>>

\* the failed save if the counter were incremented outside the try block
SaveYearFails_counted ==
    /\ pc = "save"
    /\ \E partial \in BOOLEAN :
         outputs' = IF partial
                    THEN [outputs EXCEPT ![files_by_year[yi].year] =
                              [st |-> "partial", ds |-> <<>>]]
                    ELSE outputs
    /\ log' = Append(log, Ev("error", "save_failed", files_by_year[yi].year, 0, 0))
    /\ total_success' = total_success + 1
    /\ yi' = yi + 1
    /\ pc' = "year"
    /\ UNCHANGED <<mvars, ovars, xvars>>
    /\ UNCHANGED <<found, bad_filters, grib_files, files_by_year, fi,
                   processed_datasets, final_ds, opens>>

\* lines 155-160: to_netcdf raises; it writes to the destination path itself,
\* so the path holds what it held before (the failure came before the file
\* was created) or a partially written file
SaveYearFails ==
    /\ pc = "save"
    /\ \E partial \in BOOLEAN :
         outputs' = IF partial
                    THEN [outputs EXCEPT ![files_by_year[yi].year] =
                              [st |-> "partial", ds |-> <<>>]]
                    ELSE outputs
    /\ log' = Append(log, Ev("error", "save_failed", files_by_year[yi].year, 0, 0))
    /\ yi' = yi + 1
    /\ pc' = "year"
    /\ UNCHANGED <<mvars, ovars, xvars>>
    /\ UNCHANGED <<found, bad_filters, grib_files, files_by_year, fi,
                   processed_datasets, final_ds, total_success, opens>>

\* lines 162-165: the run summary
Summary ==
    /\ pc = "year"
    /\ yi > Len(files_by_year)
    /\ log' = log \o << Ev("info", "processing_complete", <<>>, 0, 0),
                        [Ev("info", "summary_created", <<>>, 0, total_success)
                            EXCEPT !.total = Len(files_by_year)] >>
    /\ pc' = "returned"
    /\ UNCHANGED <<mvars, ovars, xvars>>
    /\ UNCHANGED <<found, bad_filters, grib_files, files_by_year, yi, fi,
                   processed_datasets, final_ds, outputs, total_success, opens>>

Next ==
    \/ LocateNone
    \/ LocateAndGroup
    \/ YearStart
    \/ ProcessFile
    \/ SkipYear
    \/ Combine
    \/ CombineFails
    \/ SaveYear
    \/ SaveYearFails
    \/ Summary

\* the variables of the yearly processor while another program runs
YIdle ==
    /\ found = {}
    /\ bad_filters = {}
    /\ pc = "idle"
    /\ grib_files = <<>>
    /\ files_by_year = <<>>
    /\ yi = 0
    /\ fi = 0
    /\ processed_datasets = <<>>
    /\ final_ds = <<>>
    /\ outputs = [y \in Years |-> Absent]
    /\ total_success = 0
    /\ log = <<>>
    /\ opens = [i \in 1..(MaxFiles + 1) |-> 0]

\* ========================================================================
\* Unified MODIS converter: data/scripts/processing/process_modis.py
\* ========================================================================

\* CONFIG['VEGETATION_VARS']
VEGETATION_VARS == {"NDVI", "EVI"}

\* file names MOD13Q1.A<year><doy>.h<tile>... ; the last one has no
\* .AYYYYDDD. part
HdfNames ==
    { [id |-> 1, dated |-> TRUE, year |-> 2020, doy |-> 366, tile |-> 8],
      [id |-> 2, dated |-> TRUE, year |-> 2020, doy |-> 367, tile |-> 8],
      [id |-> 3, dated |-> TRUE, year |-> 2021, doy |-> 1, tile |-> 8],
      [id |-> 4, dated |-> TRUE, year |-> 2021, doy |-> 1, tile |-> 9],
      [id |-> 5, dated |-> FALSE, year |-> 0, doy |-> 0, tile |-> 0] }

\* what an HDF file holds: readable with a QA layer, unreadable, or readable
\* without a 'pixel reliability' subdataset
HdfKinds == {"ok", "corrupt", "noqa"}

IsLeap(y) == (y % 4 = 0 /\ y % 100 # 0) \/ y % 400 = 0

\* days from 2020-01-01 to <y>-01-01
RECURSIVE DaysBeforeYear(_)
DaysBeforeYear(y) ==
    IF y <= 2020 THEN 0
    ELSE DaysBeforeYear(y - 1) + (IF IsLeap(y - 1) THEN 366 ELSE 365)

\* parse_modis_filename: datetime(year, 1, 1) + timedelta(days=doy - 1),
\* as a day number counted from 2020-01-01
parse_modis_filename(f) == DaysBeforeYear(f.year) + f.doy - 1

\* the worker if a file without a QA layer were processed unmasked
process_single_hdf_unmasked(f) ==
    IF ~f.dated
    THEN [ds |-> NoneDS,
          events |-> <<Ev("warning", "unparsable_date", <<>>, f.id, 0)>>]
    ELSE IF f.kind = "corrupt"
    THEN [ds |-> NoneDS,
          events |-> <<Ev("error", "error_processing", <<>>, f.id, 0)>>]
    ELSE [ds |-> [some |-> TRUE, time |-> parse_modis_filename(f),
                  vars |-> VEGETATION_VARS, coord |-> NoCoord, src |-> f.id],
          events |-> <<>>]

\* process_single_hdf(hdf_path, master_grid): the dataset returned (NoneDS for
\* None) and the log records of the worker
process_single_hdf(f) ==
    IF ~f.dated
    THEN [ds |-> NoneDS,
          events |-> <<Ev("warning", "unparsable_date", <<>>, f.id, 0)>>]
    ELSE IF f.kind # "ok"
    THEN [ds |-> NoneDS,
          events |-> <<Ev("error", "error_processing", <<>>, f.id, 0)>>]
    ELSE [ds |-> [some |-> TRUE, time |-> parse_modis_filename(f),
                  vars |-> VEGETATION_VARS, coord |-> NoCoord, src |-> f.id],
          events |-> <<>>]

\* order of two HDF file names
HdfLess(p, q) ==
    LET key(f) == IF f.dated THEN <<0, f.year, f.doy, f.tile>> ELSE <<1>>
    IN LexLess(key(p), key(q))

\* sorted(list(modis_dir.glob("*.hdf")))
RECURSIVE sorted_hdf(_)
sorted_hdf(S) ==
    IF S = {} THEN <<>>
    ELSE LET m == CHOOSE x \in S : \A y \in S \ {x} : HdfLess(x, y)
         IN <<m>> \o sorted_hdf(S \ {m})

HdfSets(most) ==
    UNION { { { [id |-> n.id, dated |-> n.dated, year |-> n.year,
                 doy |-> n.doy, tile |-> n.tile, kind |-> kinds[n]] : n \in N }
              : kinds \in [N -> HdfKinds] }
            : N \in {M \in SUBSET HdfNames : Cardinality(M) <= most} }

MInit ==
    /\ hdf_found \in HdfSets(MaxHdf)
    /\ mpc = "start"
    /\ hdf_files = <<>>
    /\ futures = <<>>
    /\ all_daily_datasets = <<>>
    /\ combined_ds = <<>>
    /\ mlog = <<>>
    /\ mexit = 0 - 1

MIdle ==
    /\ hdf_found = {}
    /\ mpc = "idle"
    /\ hdf_files = <<>>
    /\ futures = <<>>
    /\ all_daily_datasets = <<>>
    /\ combined_ds = <<>>
    /\ mlog = <<>>
    /\ mexit = 0 - 1

\* lines 99-103: no HDF file, log an error and return; the interpreter then
\* ends normally
M_LocateNone ==
    /\ mpc = "start"
    /\ sorted_hdf(hdf_found) = <<>>
    /\ mlog' = Append(mlog, Ev("error", "no_files_found", <<>>, 0, 0))
    /\ mpc' = "returned"
    /\ mexit' = 0
    /\ UNCHANGED <<hdf_found, hdf_files, futures, all_daily_datasets, combined_ds>>
    /\ UNCHANGED <<yvars, ovars, xvars>>

\* lines 99-113: locate, then submit every file to the pool
M_Submit ==
    /\ mpc = "start"
    /\ sorted_hdf(hdf_found) # <<>>
    /\ hdf_files' = sorted_hdf(hdf_found)
    /\ futures' = [i \in 1..Len(hdf_files') |-> "queued"]
    /\ mlog' = Append(mlog, Ev("info", "found_files", <<>>, 0, Len(hdf_files')))
    /\ mpc' = "pool"
    /\ UNCHANGED <<hdf_found, all_daily_datasets, combined_ds, mexit>>
    /\ UNCHANGED <<yvars, ovars, xvars>>

Running == {i \in 1..Len(futures) : futures[i] = "running"}

\* a free worker of the pool takes the oldest queued call
M_WorkerStart ==
    /\ mpc = "pool"
    /\ Cardinality(Running) < MaxWorkers
    /\ \E i \in 1..Len(futures) :
         /\ futures[i] = "queued"
         /\ \A j \in 1..(i - 1) : futures[j] # "queued"
         /\ futures' = [futures EXCEPT ![i] = "running"]
    /\ UNCHANGED <<hdf_found, mpc, hdf_files, all_daily_datasets, combined_ds,
                   mlog, mexit>>
    /\ UNCHANGED <<yvars, ovars, xvars>>

\* a worker returns from process_single_hdf
M_WorkerFinish ==
    /\ mpc = "pool"
    /\ \E i \in Running :
         /\ futures' = [futures EXCEPT ![i] = "finished"]
         /\ mlog' = mlog \o process_single_hdf(hdf_files[i]).events
    /\ UNCHANGED <<hdf_found, mpc, hdf_files, all_daily_datasets, combined_ds,
                   mexit>>
    /\ UNCHANGED <<yvars, ovars, xvars>>

\* lines 115-119: as_completed yields a finished future, its result is kept
\* unless it is None
M_Collect ==
    /\ mpc = "pool"
    /\ \E i \in 1..Len(futures) :
         /\ futures[i] = "finished"
         /\ futures' = [futures EXCEPT ![i] = "collected"]
         /\ LET result_ds == process_single_hdf(hdf_files[i]).ds
            IN all_daily_datasets' =
                 IF result_ds.some THEN Append(all_daily_datasets, result_ds)
                 ELSE all_daily_datasets
         /\ mlog' = Append(mlog, Ev("info", "finished_processing", <<>>,
                                    hdf_files[i].id, 0))
    /\ UNCHANGED <<hdf_found, mpc, hdf_files, combined_ds, mexit>>
    /\ UNCHANGED <<yvars, ovars, xvars>>

AllCollected == \A i \in 1..Len(futures) : futures[i] = "collected"

\* lines 121-123: nothing was processed, log an error and return
M_NoData ==
    /\ mpc = "pool"
    /\ AllCollected
    /\ all_daily_datasets = <<>>
    /\ mlog' = Append(mlog, Ev("error", "no_data_processed", <<>>, 0, 0))
    /\ mpc' = "returned"
    /\ mexit' = 0
    /\ UNCHANGED <<hdf_found, hdf_files, futures, all_daily_datasets, combined_ds>>
    /\ UNCHANGED <<yvars, ovars, xvars>>

\* lines 126-127: concat along time and sort by time
M_Combine ==
    /\ mpc = "pool"
    /\ AllCollected
    /\ all_daily_datasets # <<>>
    /\ combined_ds' = sortby_time(concat(all_daily_datasets))
    /\ mlog' = Append(mlog, Ev("info", "combining", <<>>, 0,
                               Len(all_daily_datasets)))
    /\ mpc' = "resample"
    /\ UNCHANGED <<hdf_found, hdf_files, futures, all_daily_datasets, mexit>>
    /\ UNCHANGED <<yvars, ovars, xvars>>

\* line 146: the name `rasterio` is not bound in this module (only rioxarray
\* is imported), so evaluating rasterio.enums.Resampling.average raises
\* NameError outside any try block and the script ends with status 1
M_Resample ==
    /\ mpc = "resample"
    /\ mpc' = "raised"
    /\ mexit' = 1
    /\ UNCHANGED <<hdf_found, hdf_files, futures, all_daily_datasets,
                   combined_ds, mlog>>
    /\ UNCHANGED <<yvars, ovars, xvars>>

MNext ==
    \/ M_LocateNone
    \/ M_Submit
    \/ M_WorkerStart
    \/ M_WorkerFinish
    \/ M_Collect
    \/ M_NoData
    \/ M_Combine
    \/ M_Resample

\* ========================================================================
\* Quality filter and scaling of one MODIS file:
\* data/scripts/processing/process_modis.py, process_single_hdf, lines 61-76
\* (the same statements in data/scripts/MODIS/modis_processor.py, 131-137)
\* ========================================================================

\* a cell value: NaN (missing) or the rational num/den
NaN == [nan |-> TRUE, num |-> 0, den |-> 1]

Num(n) == [nan |-> FALSE, num |-> n, den |-> 1]

\* CONFIG['SCALE_FACTOR'] = 0.0001
SCALE_FACTOR == [nan |-> FALSE, num |-> 1, den |-> 10000]

\* CONFIG['VALID_QA_VALUES']
VALID_QA_VALUES == {0}

\* CONFIG['VEGETATION_VARS'] as the list the loop runs over
VEGETATION_VARS_ORDER == <<"NDVI", "EVI">>

Cells == 1..MaxCells

\* values of the QA array opened with masked=True: the fill value reads as
\* NaN, 0 is good data, 1 is marginal data
QaValues == {NaN, Num(0), Num(1)}

\* values of a vegetation array opened with masked=True: the fill value
\* reads as NaN, else the stored integer
RawValues == {NaN, Num(5000), Num(0 - 2000)}

\* float multiplication: NaN propagates
Mul(a, b) ==
    IF a.nan \/ b.nan THEN NaN
    ELSE [nan |-> FALSE, num |-> a.num * b.num, den |-> a.den * b.den]

\* DataArray.isin(values): NaN is in no list
isin(da, values) ==
    [c \in DOMAIN da |-> ~da[c].nan /\ da[c].den = 1 /\ da[c].num \in values]

\* a where that keeps every cell
where_keepall(da, cond) == da

\* DataArray.where(cond): cells whose condition is false become NaN
where(da, cond) == [c \in DOMAIN da |-> IF cond[c] THEN da[c] ELSE NaN]

\* DataArray * scalar
times(da, k) == [c \in DOMAIN da |-> Mul(da[c], k)]

QInit ==
    /\ qa_da \in [Cells -> QaValues]
    /\ var_das \in [VEGETATION_VARS -> [Cells -> RawValues]]
    /\ qpc = "opened"
    /\ qv = 0
    /\ quality_mask = <<>>
    /\ processed_vars = <<>>

\* line 66: quality_mask = qa_da.isin(CONFIG['VALID_QA_VALUES'])
Q_Mask ==
    /\ qpc = "opened"
    /\ quality_mask' = isin(qa_da, VALID_QA_VALUES)
    /\ qpc' = "vars"
    /\ qv' = 1
    /\ UNCHANGED <<qa_da, var_das, processed_vars>>
    /\ UNCHANGED <<yvars, mvars, ovars, svars, wvars, gvars, dvars>>

\* lines 69-77, one turn of the loop over the vegetation variables:
\* cleaned_da = var_da.where(quality_mask) * CONFIG['SCALE_FACTOR']
Q_Clean ==
    /\ qpc = "vars"
    /\ qv <= Len(VEGETATION_VARS_ORDER)
    /\ LET var_name == VEGETATION_VARS_ORDER[qv]
           cleaned_da == times(where(var_das[var_name], quality_mask),
                               SCALE_FACTOR)
       IN processed_vars' =
              Append(processed_vars, [name |-> var_name, data |-> cleaned_da])
    /\ qv' = qv + 1
    /\ UNCHANGED <<qa_da, var_das, qpc, quality_mask>>
    /\ UNCHANGED <<yvars, mvars, ovars, svars, wvars, gvars, dvars>>

\* lines 80-83: the dataset of the cleaned variables is returned
Q_Return ==
    /\ qpc = "vars"
    /\ qv > Len(VEGETATION_VARS_ORDER)
    /\ qpc' = "returned"
    /\ UNCHANGED <<qa_da, var_das, qv, quality_mask, processed_vars>>
    /\ UNCHANGED <<yvars, mvars, ovars, svars, wvars, gvars, dvars>>

QNext ==
    \/ Q_Mask
    \/ Q_Clean
    \/ Q_Return

\* ========================================================================
\* Elevation and fire converters: data/scripts/processing/process_srtm.py
\* and data/scripts/processing/process_calfire.py
\* ========================================================================

\* setup_master_grid(): the coordinate arrays of a grid of ny rows and nx
\* columns at 3000 m spacing, y descending and x ascending, and its shape
MasterGrid(ny, nx) ==
    [y |-> [i \in 1..ny |-> (ny - i) * 3000],
     x |-> [j \in 1..nx |-> (j - 1) * 3000],
     shape |-> <<ny, nx>>]

MasterGrids == {MasterGrid(ny, nx) : ny \in 1..MaxRows, nx \in 1..MaxCols}

\* index tuples of an array of a two-dimensional shape
GridCells(shape) == (1..shape[1]) \X (1..shape[2])

\* Arrays a call of np.random can return for a set of cells, with lo and hi
\* two values of its range: the cells are drawn independently, of which
\* three outcomes are kept, all lo, all hi, and lo and hi alternating
RandomArrays(cells, lo, hi) ==
    { [c \in cells |-> lo], [c \in cells |-> hi],
      [c \in cells |-> IF (c[Len(c) - 1] + c[Len(c)]) % 2 = 0 THEN lo ELSE hi] }

\* np.random.uniform(0, 2000, shape)
ElevationDraws(shape) == RandomArrays(GridCells(shape), Num(500), Num(1500))

\* np.random.uniform(0, 50, shape)
StdDraws(shape) == RandomArrays(GridCells(shape), Num(10), Num(40))

\* the constant a source raster can hold in every cell
SourceValues == {10, 20}

Add(a, b) ==
    [nan |-> FALSE, num |-> a.num * b.den + b.num * a.den, den |-> a.den * b.den]

Sub(a, b) ==
    [nan |-> FALSE, num |-> a.num * b.den - b.num * a.den, den |-> a.den * b.den]

Half(a) == [nan |-> FALSE, num |-> a.num, den |-> a.den * 2]

\* elementwise a + b and a - b of two arrays of one shape
ArrayAdd(a, b) ==
    [shape |-> a.shape, data |-> [c \in DOMAIN a.data |-> Add(a.data[c], b.data[c])]]

ArraySub(a, b) ==
    [shape |-> a.shape, data |-> [c \in DOMAIN a.data |-> Sub(a.data[c], b.data[c])]]

\* np.zeros(shape)
zeros(shape) == [shape |-> shape, data |-> [c \in GridCells(shape) |-> Num(0)]]

\* np.gradient needs at least two elements along every axis
GradientRaises(a) == \E k \in 1..Len(a.shape) : a.shape[k] < 2

\* np.gradient(a)[axis]: one-sided differences at the two ends of the axis,
\* central differences in between
gradient(a, axis) ==
    [shape |-> a.shape,
     data |-> [c \in DOMAIN a.data |->
                 LET n == a.shape[axis]
                     k == c[axis]
                     at(m) == a.data[[c EXCEPT ![axis] = m]]
                 IN IF k = 1 THEN Sub(at(2), at(1))
                    ELSE IF k = n THEN Sub(at(n), at(n - 1))
                    ELSE Half(Sub(at(k + 1), at(k - 1)))]]

\* coordinates numbered from 0, as an array without coordinates is indexed
GridCoords_index(grid) ==
    [y |-> [i \in 1..Len(grid.y) |-> i - 1],
     x |-> [j \in 1..Len(grid.x) |-> j - 1]]

\* coords={'y': master_grid['y'], 'x': master_grid['x'], ...}
GridCoords(grid) == [y |-> grid.y, x |-> grid.x]

SInit ==
    /\ master_grid \in MasterGrids
    /\ sprog \in {"srtm", "calfire"}
    /\ spc = "start"
    /\ src_present \in BOOLEAN
    /\ src_value \in (IF src_present THEN SourceValues ELSE {0})
    /\ arrays = <<>>
    /\ sds = <<>>
    /\ unified = [n \in UnifiedNames |-> NoFile]
    /\ sexit = 0 - 1
    /\ s_runs = <<>>

\* process_srtm.py lines 22-28: no .tif file, random placeholder data
E_MakePlaceholder ==
    /\ sprog = "srtm" /\ spc = "start"
    /\ ~src_present
    /\ \E e \in ElevationDraws(master_grid.shape) :
         LET elevation_data == [shape |-> master_grid.shape, data |-> e] IN
         arrays' = [elevation_data |-> elevation_data,
                    elevation_median |-> elevation_data,
                    elevation_std |-> zeros(master_grid.shape),
                    elevation_min |-> elevation_data,
                    elevation_max |-> elevation_data]
    /\ spc' = "data"
    /\ UNCHANGED <<s_runs, master_grid, sprog, src_present, src_value, sds, unified, sexit>>
    /\ UNCHANGED <<yvars, mvars, ovars, qvars, wvars, gvars, dvars>>

\* process_srtm.py lines 29-37: .tif files exist, their content is not read
E_MakeData ==
    /\ sprog = "srtm" /\ spc = "start"
    /\ src_present
    /\ \E e \in ElevationDraws(master_grid.shape),
          d \in StdDraws(master_grid.shape) :
         LET elevation_data == [shape |-> master_grid.shape, data |-> e]
             elevation_std == [shape |-> master_grid.shape, data |-> d]
         IN arrays' = [elevation_data |-> elevation_data,
                       elevation_median |-> elevation_data,
                       elevation_std |-> elevation_std,
                       elevation_min |-> ArraySub(elevation_data, elevation_std),
                       elevation_max |-> ArrayAdd(elevation_data, elevation_std)]
    /\ spc' = "data"
    /\ UNCHANGED <<s_runs, master_grid, sprog, src_present, src_value, sds, unified, sexit>>
    /\ UNCHANGED <<yvars, mvars, ovars, qvars, wvars, gvars, dvars>>

\* process_srtm.py lines 41-42 raise on a grid with a single row or column
E_GradientFails ==
    /\ sprog = "srtm" /\ spc = "data"
    /\ GradientRaises(arrays.elevation_data)
    /\ spc' = "raised"
    /\ sexit' = 1
    /\ UNCHANGED <<s_runs, master_grid, sprog, src_present, src_value, arrays, sds, unified>>
    /\ UNCHANGED <<yvars, mvars, ovars, qvars, wvars, gvars, dvars>>

\* process_srtm.py lines 41-58: slope, aspect and the Dataset
E_Build ==
    /\ sprog = "srtm" /\ spc = "data"
    /\ ~GradientRaises(arrays.elevation_data)
    /\ LET slope_data == gradient(arrays.elevation_data, 1)
           aspect_data == gradient(arrays.elevation_data, 2)
       IN sds' = [data_vars |-> [elevation_mean |-> arrays.elevation_data,
                                 elevation_median |-> arrays.elevation_median,
                                 elevation_std |-> arrays.elevation_std,
                                 elevation_min |-> arrays.elevation_min,
                                 elevation_max |-> arrays.elevation_max,
                                 slope |-> slope_data,
                                 aspect |-> aspect_data],
                  coords |-> GridCoords(master_grid)]
    /\ spc' = "built"
    /\ UNCHANGED <<s_runs, master_grid, sprog, src_present, src_value, arrays, unified, sexit>>
    /\ UNCHANGED <<yvars, mvars, ovars, qvars, wvars, gvars, dvars>>

\* process_srtm.py lines 61-73: ds.to_netcdf(output_path) succeeds
E_Save ==
    /\ sprog = "srtm" /\ spc = "built"
    /\ unified' = [unified EXCEPT !["elevation"] = [st |-> "complete", ds |-> sds]]
    /\ spc' = "returned"
    /\ sexit' = 0
    /\ UNCHANGED <<s_runs, master_grid, sprog, src_present, src_value, arrays, sds>>
    /\ UNCHANGED <<yvars, mvars, ovars, qvars, wvars, gvars, dvars>>

\* process_srtm.py line 72 raises and nothing catches it: to_netcdf writes
\* to the destination path itself, so the path holds what it held before
\* (the failure came before the file was opened for writing) or a partially
\* written file
E_SaveFails ==
    /\ sprog = "srtm" /\ spc = "built"
    /\ \E partial \in BOOLEAN :
         unified' = IF partial
                    THEN [unified EXCEPT !["elevation"] =
                              [st |-> "partial", ds |-> <<>>]]
                    ELSE unified
    /\ spc' = "raised"
    /\ sexit' = 1
    /\ UNCHANGED <<s_runs, master_grid, sprog, src_present, src_value, arrays, sds>>
    /\ UNCHANGED <<yvars, mvars, ovars, qvars, wvars, gvars, dvars>>

\* pd.date_range(start_date, end_date, freq='D'), as day numbers
time_coords == [t \in 1..MaxDays |-> t]

\* index tuples of an array of shape (time, y, x)
FireCells(shape) == (1..shape[1]) \X (1..shape[2]) \X (1..shape[3])

\* np.random.choice([0, 1], shape, p=[0.999, 0.001])
FireDraws(shape) == RandomArrays(FireCells(shape), Num(0), Num(1))

\* process_calfire.py lines 23-38: both branches draw random fire masks,
\* the shapefiles are not read
F_MakeData ==
    /\ sprog = "calfire" /\ spc = "start"
    /\ LET shape == <<Len(time_coords)>> \o master_grid.shape IN
       \E f \in FireDraws(shape) :
           arrays' = [fire_present |-> [shape |-> shape, data |-> f]]
    /\ spc' = "data"
    /\ UNCHANGED <<s_runs, master_grid, sprog, src_present, src_value, sds, unified, sexit>>
    /\ UNCHANGED <<yvars, mvars, ovars, qvars, wvars, gvars, dvars>>

\* process_calfire.py lines 41-49: the Dataset
F_Build ==
    /\ sprog = "calfire" /\ spc = "data"
    /\ sds' = [data_vars |-> [fire_present |-> arrays.fire_present],
               coords |-> [time |-> time_coords,
                           y |-> GridCoords(master_grid).y,
                           x |-> GridCoords(master_grid).x]]
    /\ spc' = "built"
    /\ UNCHANGED <<s_runs, master_grid, sprog, src_present, src_value, arrays, unified, sexit>>
    /\ UNCHANGED <<yvars, mvars, ovars, qvars, wvars, gvars, dvars>>

\* process_calfire.py lines 52-66: ds.to_netcdf(output_path, ...) succeeds
F_Save ==
    /\ sprog = "calfire" /\ spc = "built"
    /\ unified' = [unified EXCEPT !["fire"] = [st |-> "complete", ds |-> sds]]
    /\ spc' = "returned"
    /\ sexit' = 0
    /\ UNCHANGED <<s_runs, master_grid, sprog, src_present, src_value, arrays, sds>>
    /\ UNCHANGED <<yvars, mvars, ovars, qvars, wvars, gvars, dvars>>

\* process_calfire.py line 62 raises and nothing catches it: the path holds
\* what it held before or a partially written file
F_SaveFails ==
    /\ sprog = "calfire" /\ spc = "built"
    /\ \E partial \in BOOLEAN :
         unified' = IF partial
                    THEN [unified EXCEPT !["fire"] =
                              [st |-> "partial", ds |-> <<>>]]
                    ELSE unified
    /\ spc' = "raised"
    /\ sexit' = 1
    /\ UNCHANGED <<s_runs, master_grid, sprog, src_present, src_value, arrays, sds>>
    /\ UNCHANGED <<yvars, mvars, ovars, qvars, wvars, gvars, dvars>>

\* the converter is run again over the same master grid and the same source
\* directory
S_Rerun ==
    /\ spc = "returned"
    /\ Len(s_runs) + 1 < MaxRuns
    /\ s_runs' = Append(s_runs, unified)
    /\ spc' = "start"
    /\ arrays' = <<>>
    /\ sds' = <<>>
    /\ sexit' = 0 - 1
    /\ UNCHANGED <<master_grid, sprog, src_present, src_value, unified>>
    /\ UNCHANGED <<yvars, mvars, ovars, qvars, wvars, gvars, dvars>>

SNext ==
    \/ S_Rerun
    \/ E_MakePlaceholder
    \/ E_MakeData
    \/ E_GradientFails
    \/ E_Build
    \/ E_Save
    \/ E_SaveFails
    \/ F_MakeData
    \/ F_Build
    \/ F_Save
    \/ F_SaveFails

\* ========================================================================
\* Orchestrator: scripts/unified_data_conversion.py
\* ========================================================================

\* scripts_to_run, in list order
scripts_to_run ==
    <<"process_srtm", "process_modis", "process_calfire", "process_hrrr">>

\* what a processing script does when it is run:
\*   "missing"          the script file does not exist
\*   "ok"               it finds its source files and ends normally
\*   "no_source_files"  its locator finds no source file
\*   "raised"           it ends with an uncaught exception
StageKinds == {"missing", "ok", "no_source_files", "raised"}

\* exit status of the script process: a script whose locator finds nothing
\* logs an error and returns from its convert function (process_modis.py
\* lines 101-103, process_hrrr.py lines 108-110) or writes a placeholder
\* (process_srtm.py lines 22-28), and the interpreter ends normally
ScriptExitStatus(kind) == IF kind = "raised" THEN 1 ELSE 0

\* subprocess.run(..., check=True) raises CalledProcessError exactly when the
\* exit status is not zero; any other run counts as a finished stage
CalledProcessError(status) == status # 0

OEv(msg, script) == [msg |-> msg, script |-> script]

\* the scripts of the list that write a file of data/unified when run:
\* process_srtm.py and process_calfire.py; process_modis.py and
\* process_hrrr.py end before their save step
Converters ==
    {i \in 1..Len(scripts_to_run) :
        scripts_to_run[i] \in {"process_srtm", "process_calfire"}}

\* the converter a script of the list is
ProgramOf(script) == IF script = "process_srtm" THEN "srtm" ELSE "calfire"

OInit ==
    /\ repo_scripts \in SUBSET Converters
    /\ stages \in { st \in [1..Len(scripts_to_run) -> StageKinds] :
                       \A i \in repo_scripts :
                           st[i] \in {"ok", "no_source_files"} }
    /\ opc = "loop"
    /\ si = 1
    /\ started = <<>>
    /\ returncodes = <<>>
    /\ olog = <<OEv("starting_pipeline", "")>>
    /\ oexit = 0 - 1

OIdle ==
    /\ stages = [i \in 1..Len(scripts_to_run) |-> "ok"]
    /\ repo_scripts = {}
    /\ opc = "idle"
    /\ si = 0
    /\ started = <<>>
    /\ returncodes = <<>>
    /\ olog = <<>>
    /\ oexit = 0 - 1

\* what the orchestrator's run finds: the master grid the converters set
\* up, an empty data/unified, and no converter running
OStatic ==
    /\ master_grid \in MasterGrids
    /\ sprog = "none"
    /\ spc = "idle"
    /\ src_present = FALSE
    /\ src_value = 0
    /\ arrays = <<>>
    /\ sds = <<>>
    /\ unified = [n \in UnifiedNames |-> NoFile]
    /\ sexit = 0 - 1
    /\ s_runs = <<>>

\* the child process of the stage has ended
ChildEnded(i) == i \in repo_scripts => spc \in {"returned", "raised"}

\* result.returncode of the child process of the stage
returncode(i) ==
    IF i \in repo_scripts THEN sexit ELSE ScriptExitStatus(stages[i])

\* main(), lines 44-46: the script is not there, exit with status 1
O_ScriptMissing ==
    /\ opc = "loop"
    /\ si <= Len(scripts_to_run)
    /\ stages[si] = "missing"
    /\ olog' = Append(olog, OEv("script_not_found", scripts_to_run[si]))
    /\ oexit' = 1
    /\ opc' = "exited"
    /\ UNCHANGED <<stages, si, started, returncodes, repo_scripts>>
    /\ UNCHANGED <<yvars, mvars, xvars>>

\* main() line 47 and run_script lines 15-18: 'Running' is printed and
\* subprocess.run starts the script as a child process and waits for it; a
\* converter of the repository starts with the sources its stage has
O_StartScript ==
    /\ opc = "loop"
    /\ si <= Len(scripts_to_run)
    /\ stages[si] # "missing"
    /\ started' = Append(started, si)
    /\ olog' = Append(olog, OEv("running", scripts_to_run[si]))
    /\ opc' = "waiting"
    /\ IF si \in repo_scripts
       THEN /\ sprog' = ProgramOf(scripts_to_run[si])
            /\ spc' = "start"
            /\ src_present' = (stages[si] = "ok")
            /\ src_value' \in (IF stages[si] = "ok" THEN SourceValues ELSE {0})
            /\ arrays' = <<>>
            /\ sds' = <<>>
            /\ sexit' = 0 - 1
            /\ UNCHANGED <<master_grid, unified, s_runs>>
       ELSE UNCHANGED svars
    /\ UNCHANGED <<stages, si, returncodes, repo_scripts, oexit>>
    /\ UNCHANGED <<yvars, mvars, qvars, wvars, gvars, dvars>>

\* run_script, lines 18-22: subprocess.run(check=True) returns because the
\* child has ended with exit status zero, 'Finished' is printed
O_RunScript ==
    /\ opc = "waiting"
    /\ ChildEnded(si)
    /\ ~CalledProcessError(returncode(si))
    /\ returncodes' = Append(returncodes, returncode(si))
    /\ olog' = Append(olog, OEv("finished", scripts_to_run[si]))
    /\ si' = si + 1
    /\ opc' = "loop"
    /\ UNCHANGED <<stages, started, repo_scripts, oexit>>
    /\ UNCHANGED <<yvars, mvars, xvars>>

\* the failed script if run_script printed the error and returned
O_RunScriptFails_continue ==
    /\ opc = "waiting"
    /\ ChildEnded(si)
    /\ CalledProcessError(returncode(si))
    /\ returncodes' = Append(returncodes, returncode(si))
    /\ olog' = Append(olog, OEv("error_running", scripts_to_run[si]))
    /\ si' = si + 1
    /\ opc' = "loop"
    /\ UNCHANGED <<stages, started, repo_scripts, oexit>>
    /\ UNCHANGED <<yvars, mvars, xvars>>

\* run_script, lines 18 and 23-27: the child has ended with a non-zero
\* status, CalledProcessError, print the error and exit 1
O_RunScriptFails ==
    /\ opc = "waiting"
    /\ ChildEnded(si)
    /\ CalledProcessError(returncode(si))
    /\ returncodes' = Append(returncodes, returncode(si))
    /\ olog' = Append(olog, OEv("error_running", scripts_to_run[si]))
    /\ oexit' = 1
    /\ opc' = "exited"
    /\ UNCHANGED <<stages, si, started, repo_scripts>>
    /\ UNCHANGED <<yvars, mvars, xvars>>

\* main(), lines 49-53: every script ran, print the success banner
O_Completed ==
    /\ opc = "loop"
    /\ si > Len(scripts_to_run)
    /\ olog' = Append(olog, OEv("completed_successfully", ""))
    /\ oexit' = 0
    /\ opc' = "returned"
    /\ UNCHANGED <<stages, si, started, returncodes, repo_scripts>>
    /\ UNCHANGED <<yvars, mvars, xvars>>

\* the converter the orchestrator waits for takes a step
O_Child ==
    /\ opc = "waiting"
    /\ si \in repo_scripts
    /\ \/ E_MakePlaceholder
       \/ E_MakeData
       \/ E_GradientFails
       \/ E_Build
       \/ E_Save
       \/ E_SaveFails
       \/ F_MakeData
       \/ F_Build
       \/ F_Save
       \/ F_SaveFails

ONext ==
    \/ O_ScriptMissing
    \/ O_StartScript
    \/ O_Child
    \/ O_RunScript
    \/ O_RunScriptFails
    \/ O_Completed

\* ========================================================================
\* Unified HRRR converter: data/scripts/processing/process_hrrr.py
\* ========================================================================

\* names of the date folders below the HRRR directory, as digits:
\* '20200101', '20210101', '20200230' (no such day) and '202001' (no day)
WDirNames ==
    { <<2,0,2,0,0,1,0,1>>, <<2,0,2,1,0,1,0,1>>, <<2,0,2,0,0,2,3,0>>,
      <<2,0,2,0,0,1>> }

\* assignments of the files 1..n to date folders; the later folders hold
\* the lower file names
WFolderChoices(n) ==
    { dirs \in [1..n -> WDirNames] :
        \A i, j \in 1..n : i < j => ~LexLess(dirs[i], dirs[j]) }

\* the number a string of digits spells
RECURSIVE Number(_)
Number(digits) ==
    IF digits = <<>> THEN 0
    ELSE 10 * Number(SubSeq(digits, 1, Len(digits) - 1)) + digits[Len(digits)]

\* the directive %m matches '1[0-2]|0[1-9]|[1-9]'
MatchesMonth(digits) ==
    \/ Len(digits) = 2 /\ Number(digits) \in 1..12
    \/ Len(digits) = 1 /\ Number(digits) \in 1..9

\* the directive %d matches '3[0-1]|[1-2]\d|0[1-9]|[1-9]'
MatchesDay(digits) ==
    \/ Len(digits) = 2 /\ Number(digits) \in 1..31
    \/ Len(digits) = 1 /\ Number(digits) \in 1..9

\* days of a month of the Gregorian calendar
DaysIn(year, month) ==
    IF month = 2
    THEN IF year % 4 = 0 /\ (year % 100 # 0 \/ year % 400 = 0) THEN 29 ELSE 28
    ELSE IF month \in {4, 6, 9, 11} THEN 30 ELSE 31

\* pd.to_datetime(date_str, format='%Y%m%d'): four digits of year, then the
\* month (two digits if they spell a month, else one) and the day, which
\* must use up the string; ValueError when the string does not match or the
\* day does not exist. The date is returned as the number yyyymmdd.
to_datetime(digits) ==
    LET rest == SubSeq(digits, 5, Len(digits))
        Fits(k) == /\ Len(rest) > k
                   /\ MatchesMonth(SubSeq(rest, 1, k))
                   /\ MatchesDay(SubSeq(rest, k + 1, Len(rest)))
        k == IF Fits(2) THEN 2 ELSE 1
        year == Number(SubSeq(digits, 1, 4))
        month == Number(SubSeq(rest, 1, k))
        day == Number(SubSeq(rest, k + 1, Len(rest)))
    IN IF Len(digits) < 5 \/ ~Fits(k) THEN [raised |-> TRUE, date |-> 0]
       ELSE IF day > DaysIn(year, month) THEN [raised |-> TRUE, date |-> 0]
       ELSE [raised |-> FALSE, date |-> 10000 * year + 100 * month + day]

\* what a file of this converter holds: as FileContents, and whether its
\* data includes one of CONFIG['HRRR_VARS']
WContents ==
    { [corrupt |-> c.corrupt, lv |-> c.lv, req |-> q] :
        c \in {d \in FileContents : d.t = 1}, q \in BOOLEAN }

WFileContents ==
    { c \in WContents : (c.corrupt \/ HasNoData(c.lv)) => ~c.req }

\* the files hrrr_dir.glob('*/subset_*__hrrr.t21z.wrfsfcf00.grib2') can find
WFileSet(dirs, cont) ==
    { [top |-> <<>>, dir |-> dirs[i], name |-> i, corrupt |-> cont[i].corrupt,
       lv |-> cont[i].lv, t |-> to_datetime(dirs[i]).date, req |-> cont[i].req]
      : i \in DOMAIN dirs }

\* the dataset of one level group with the time dimension added: a group
\* whose filter matched nothing has no data variables
w_LevelDS(f, level_name, time_coord) ==
    [some |-> TRUE, time |-> time_coord,
     vars |-> IF f.lv[level_name] = "data" THEN {level_name} ELSE {},
     coord |-> IF f.lv[level_name] = "data" THEN LevelCoord(level_name)
               ELSE NoCoord,
     src |-> f.name]

\* lines 50-62: every level that opens is appended, with or without data
\* variables; `except Exception` skips a level whose open raises
RECURSIVE w_LevelLoop(_, _, _, _)
w_LevelLoop(f, time_coord, i, level_datasets) ==
    IF i > Len(LEVEL_FILTERS) THEN level_datasets
    ELSE LET r == open_dataset(f, {}, LEVEL_FILTERS[i]) IN
         IF r \in Exceptions /\ InnerCatches(r)
         THEN w_LevelLoop(f, time_coord, i + 1, level_datasets)
         ELSE w_LevelLoop(f, time_coord, i + 1,
                          Append(level_datasets,
                                 w_LevelDS(f, LEVEL_FILTERS[i], time_coord)))

\* process_single_grib_file(grib_path) of this converter, lines 39-85: the
\* time coordinate is the date of the folder; a folder name that is no date
\* raises ValueError before any level is opened and is reported as a
\* corrupted file; a file of which no level opens is reported with a warning
w_process_single_grib_file(f) ==
    LET time_coord == to_datetime(f.dir) IN
    IF time_coord.raised
    THEN [ds |-> NoneDS,
          events |-> <<Ev("warning", "corrupted_file", <<>>, f.name, 0)>>]
    ELSE LET level_datasets == w_LevelLoop(f, time_coord.date, 1, <<>>) IN
         IF level_datasets = <<>>
         THEN [ds |-> NoneDS,
               events |-> <<Ev("warning", "no_data_found", <<>>, f.name, 0)>>]
         ELSE [ds |-> merge(level_datasets), events |-> <<>>]

WInit ==
    /\ \E n \in 0..MaxFiles :
         \E dirs \in WFolderChoices(n), cont \in [1..n -> WFileContents] :
             w_found = WFileSet(dirs, cont)
    /\ wpc = "start"
    /\ w_files = <<>>
    /\ wi = 0
    /\ all_reprojected_data = <<>>
    /\ wlog = <<>>
    /\ wexit = 0 - 1

\* lines 106-110: no file found, log an error and return
W_LocateNone ==
    /\ wpc = "start"
    /\ w_found = {}
    /\ wlog' = Append(wlog, Ev("error", "no_grib_files", <<>>, 0, 0))
    /\ wpc' = "returned"
    /\ wexit' = 0
    /\ UNCHANGED <<w_found, w_files, wi, all_reprojected_data>>
    /\ UNCHANGED <<yvars, mvars, ovars, qvars, svars, gvars, dvars>>

\* lines 106-114: the sorted file list
W_Locate ==
    /\ wpc = "start"
    /\ w_found # {}
    /\ w_files' = sorted(w_found)
    /\ wlog' = Append(wlog, Ev("info", "found_files", <<>>, 0, Cardinality(w_found)))
    /\ wi' = 1
    /\ wpc' = "loop"
    /\ UNCHANGED <<w_found, all_reprojected_data, wexit>>
    /\ UNCHANGED <<yvars, mvars, ovars, qvars, svars, gvars, dvars>>

\* lines 117-123: the file gives no dataset, continue
W_FileNone ==
    /\ wpc = "loop"
    /\ wi <= Len(w_files)
    /\ LET f == w_files[wi]
           r == w_process_single_grib_file(f)
       IN /\ ~r.ds.some
          /\ wlog' = wlog \o <<Ev("info", "processing_file", <<>>, f.name, wi)>>
                          \o r.events
    /\ wi' = wi + 1
    /\ UNCHANGED <<w_found, wpc, w_files, all_reprojected_data, wexit>>
    /\ UNCHANGED <<yvars, mvars, ovars, qvars, svars, gvars, dvars>>

\* lines 117-131: the dataset holds none of the required variables
W_FileNoVars ==
    /\ wpc = "loop"
    /\ wi <= Len(w_files)
    /\ LET f == w_files[wi]
           r == w_process_single_grib_file(f)
       IN /\ r.ds.some
          /\ ~f.req
          /\ wlog' = wlog \o <<Ev("info", "processing_file", <<>>, f.name, wi),
                                Ev("warning", "no_required_variables", <<>>, f.name, 0)>>
    /\ wi' = wi + 1
    /\ UNCHANGED <<w_found, wpc, w_files, all_reprojected_data, wexit>>
    /\ UNCHANGED <<yvars, mvars, ovars, qvars, svars, gvars, dvars>>

\* lines 117-141: evaluating rasterio.enums.Resampling.bilinear raises
\* NameError (rasterio is not imported), the handler of line 140 logs it
\* and the loop goes on; nothing is appended
W_ReprojectFails ==
    /\ wpc = "loop"
    /\ wi <= Len(w_files)
    /\ LET f == w_files[wi]
           r == w_process_single_grib_file(f)
       IN /\ r.ds.some
          /\ f.req
          /\ wlog' = wlog \o <<Ev("info", "processing_file", <<>>, f.name, wi),
                                Ev("error", "failed_to_reproject", <<>>, f.name, 0)>>
    /\ wi' = wi + 1
    /\ UNCHANGED <<w_found, wpc, w_files, all_reprojected_data, wexit>>
    /\ UNCHANGED <<yvars, mvars, ovars, qvars, svars, gvars, dvars>>

\* lines 143-145: nothing was reprojected, log an error and return
W_NoData ==
    /\ wpc = "loop"
    /\ wi > Len(w_files)
    /\ all_reprojected_data = <<>>
    /\ wlog' = Append(wlog, Ev("error", "no_data_processed", <<>>, 0, 0))
    /\ wpc' = "returned"
    /\ wexit' = 0
    /\ UNCHANGED <<w_found, w_files, wi, all_reprojected_data>>
    /\ UNCHANGED <<yvars, mvars, ovars, qvars, svars, gvars, dvars>>

WNext ==
    \/ W_LocateNone
    \/ W_Locate
    \/ W_FileNone
    \/ W_FileNoVars
    \/ W_ReprojectFails
    \/ W_NoData

\* ========================================================================
\* MODIS GeoTIFF processor: data/scripts/MODIS/modis_processor.py
\* ========================================================================

\* File names are sequences of pieces, coded so that the order of the codes
\* is the order of the strings: 0 '.hdf', 1 'MOD13Q1.A2020001.h08v05',
\* 2 'MOD13Q1.A2020017.h08v05', 3 'MOD13Q1.h08v05' (no date), 4 '.bak',
\* 5 'Successfully processed.A2020001.h08v05'
HdfExt == <<0>>

\* names matched by '*.hdf': the 2020001 tile, a copy of it named
\* <name>.hdf.bak.hdf, the 2020017 tile, a file without a date and a file
\* whose name holds the words 'Successfully processed'
GNames ==
    { <<1>> \o HdfExt, <<1>> \o HdfExt \o <<4>> \o HdfExt,
      <<2>> \o HdfExt, <<3>> \o HdfExt, <<5>> \o HdfExt }

\* CONFIG['DATE_REGEX'].search(basename) finds a date
GDated(name) == \E k \in 1..Len(name) : name[k] \in {1, 2, 5}

\* basename.split('.hdf')[0]: what precedes the first '.hdf'
RECURSIVE SplitFirst(_)
SplitFirst(name) ==
    IF name = <<>> \/ <<Head(name)>> = HdfExt THEN <<>>
    ELSE <<Head(name)>> \o SplitFirst(Tail(name))

\* lines 86-88: the two output paths of a file
base_filename(name) == SplitFirst(name)

Bases == {base_filename(n) : n \in GNames}

DatedBases == {base_filename(n) : n \in {m \in GNames : GDated(m)}}

GPaths == {"NDVI", "EVI"} \X Bases

GKinds == {"ok", "corrupt"}

GFileSets(most) ==
    UNION { { { [name |-> n, kind |-> kinds[n]] : n \in N }
              : kinds \in [N -> GKinds] }
            : N \in {M \in SUBSET GNames : Cardinality(M) <= most} }

\* sorted(glob.glob(os.path.join(args.data_path, "*.hdf")))
RECURSIVE sorted_names(_)
sorted_names(S) ==
    IF S = {} THEN <<>>
    ELSE LET m == CHOOSE x \in S : \A y \in S \ {x} : LexLess(x.name, y.name)
         IN <<m>> \o sorted_names(S \ {m})

\* what the output folders hold before the run, per base name: nothing,
\* both GeoTIFFs, or the NDVI one only
Existing ==
    { [p \in GPaths |->
          IF /\ p[2] \in DatedBases
             /\ \/ pre[p[2]] = "both"
                \/ (pre[p[2]] = "ndvi" /\ p[1] = "NDVI")
          THEN [st |-> "complete", writers |-> {}, src |-> 0, raced |-> FALSE]
          ELSE [st |-> "absent", writers |-> {}, src |-> 0, raced |-> FALSE]]
      : pre \in [DatedBases -> {"none", "both", "ndvi"}] }

\* os.path.exists(path)
exists(p) == tiffs[p].st # "absent"

GInit ==
    /\ g_found \in GFileSets(MaxTiles)
    /\ g_ok \in BOOLEAN
    /\ gpc = "start"
    /\ g_files = <<>>
    /\ gfut = <<>>
    /\ gres = <<>>
    /\ tiffs \in Existing
    /\ processed_count = 0
    /\ skipped_count = 0
    /\ error_count = 0
    /\ g_run = [n |-> 1, origin |-> tiffs, before |-> tiffs, clean |-> FALSE]
    /\ g_seen = <<>>

\* lines 184-187: an input path does not exist, log an error and return
G_InputMissing ==
    /\ gpc = "start"
    /\ ~g_ok
    /\ gpc' = "returned"
    /\ UNCHANGED <<g_run, g_seen, g_found, g_ok, g_files, gfut, gres, tiffs, processed_count,
                   skipped_count, error_count>>
    /\ UNCHANGED <<yvars, mvars, ovars, qvars, svars, wvars, dvars>>

\* lines 197-200: no HDF file, log an error and return
G_LocateNone ==
    /\ gpc = "start"
    /\ g_ok
    /\ g_found = {}
    /\ gpc' = "returned"
    /\ UNCHANGED <<g_run, g_seen, g_found, g_ok, g_files, gfut, gres, tiffs, processed_count,
                   skipped_count, error_count>>
    /\ UNCHANGED <<yvars, mvars, ovars, qvars, svars, wvars, dvars>>

\* lines 197-215: every file is submitted to the pool
G_Submit ==
    /\ gpc = "start"
    /\ g_ok
    /\ g_found # {}
    /\ g_files' = sorted_names(g_found)
    /\ gfut' = [i \in 1..Cardinality(g_found) |-> "queued"]
    /\ gres' = [i \in 1..Cardinality(g_found) |-> "pending"]
    /\ g_seen' = [i \in 1..Cardinality(g_found) |->
                     [checked |-> FALSE, found |-> {}]]
    /\ gpc' = "pool"
    /\ UNCHANGED <<g_run, g_found, g_ok, tiffs, processed_count, skipped_count,
                   error_count>>
    /\ UNCHANGED <<yvars, mvars, ovars, qvars, svars, wvars, dvars>>

\* the calls a worker process is executing
GBusy == {i \in 1..Len(gfut) : gfut[i] \in {"running", "opening", "ndvi", "evi"}}

NdviPath(i) == <<"NDVI", base_filename(g_files[i].name)>>

EviPath(i) == <<"EVI", base_filename(g_files[i].name)>>

\* the outputs of file i that exist
Seen(i) == {k \in {"NDVI", "EVI"} : exists(<<k, base_filename(g_files[i].name)>>)}

\* the skip test if one existing output were enough
already_exists_either(i) == exists(NdviPath(i)) \/ exists(EviPath(i))

\* line 91: os.path.exists(output_path_ndvi) and os.path.exists(output_path_evi)
already_exists(i) == exists(NdviPath(i)) /\ exists(EviPath(i))

\* a free worker of the pool takes the oldest queued call
G_WorkerStart ==
    /\ gpc = "pool"
    /\ Cardinality(GBusy) < MaxWorkers
    /\ \E i \in 1..Len(gfut) :
         /\ gfut[i] = "queued"
         /\ \A j \in 1..(i - 1) : gfut[j] # "queued"
         /\ gfut' = [gfut EXCEPT ![i] = "running"]
    /\ UNCHANGED <<g_run, g_seen, g_found, g_ok, gpc, g_files, gres, tiffs, processed_count,
                   skipped_count, error_count>>
    /\ UNCHANGED <<yvars, mvars, ovars, qvars, svars, wvars, dvars>>

\* lines 80-83: no date in the file name, warn and return None
G_NoDate ==
    /\ gpc = "pool"
    /\ \E i \in 1..Len(gfut) :
         /\ gfut[i] = "running"
         /\ ~GDated(g_files[i].name)
         /\ gfut' = [gfut EXCEPT ![i] = "finished"]
         /\ gres' = [gres EXCEPT ![i] = "none"]
    /\ UNCHANGED <<g_run, g_seen, g_found, g_ok, gpc, g_files, tiffs, processed_count,
                   skipped_count, error_count>>
    /\ UNCHANGED <<yvars, mvars, ovars, qvars, svars, wvars, dvars>>

\* lines 86-92: both outputs exist, return 'Skipped (already exists)'
G_Skip ==
    /\ gpc = "pool"
    /\ \E i \in 1..Len(gfut) :
         /\ gfut[i] = "running"
         /\ GDated(g_files[i].name)
         /\ already_exists(i)
         /\ g_seen' = [g_seen EXCEPT ![i] = [checked |-> TRUE, found |-> Seen(i)]]
         /\ gfut' = [gfut EXCEPT ![i] = "finished"]
         /\ gres' = [gres EXCEPT ![i] = "skipped"]
    /\ UNCHANGED <<g_run, g_found, g_ok, gpc, g_files, tiffs, processed_count,
                   skipped_count, error_count>>
    /\ UNCHANGED <<yvars, mvars, ovars, qvars, svars, wvars, dvars>>

\* lines 86-95: an output is missing, the worker goes on to read the HDF
G_Proceed ==
    /\ gpc = "pool"
    /\ \E i \in 1..Len(gfut) :
         /\ gfut[i] = "running"
         /\ GDated(g_files[i].name)
         /\ ~already_exists(i)
         /\ g_seen' = [g_seen EXCEPT ![i] = [checked |-> TRUE, found |-> Seen(i)]]
         /\ gfut' = [gfut EXCEPT ![i] = "opening"]
    /\ UNCHANGED <<g_run, g_found, g_ok, gpc, g_files, gres, tiffs, processed_count,
                   skipped_count, error_count>>
    /\ UNCHANGED <<yvars, mvars, ovars, qvars, svars, wvars, dvars>>

\* lines 100-137 raise for an unreadable file; lines 145-147 log the error
\* and return None
G_OpenFails ==
    /\ gpc = "pool"
    /\ \E i \in 1..Len(gfut) :
         /\ gfut[i] = "opening"
         /\ g_files[i].kind # "ok"
         /\ gfut' = [gfut EXCEPT ![i] = "finished"]
         /\ gres' = [gres EXCEPT ![i] = "none"]
    /\ UNCHANGED <<g_run, g_seen, g_found, g_ok, gpc, g_files, tiffs, processed_count,
                   skipped_count, error_count>>
    /\ UNCHANGED <<yvars, mvars, ovars, qvars, svars, wvars, dvars>>

\* a worker opens a path for writing: to_raster creates or truncates the
\* file; two workers race when the path is opened while another worker is
\* writing it
OpenForWrite(t, p, i) ==
    [t EXCEPT ![p] = [st |-> "partial", writers |-> @.writers \cup {i},
                      src |-> i, raced |-> @.writers # {}]]

\* a worker closes a path it wrote. While another worker is writing the path
\* the file is not whole; after the last close it is whole, except that the
\* bytes of two workers that raced may be mixed (whole says which)
CloseWritten(t, p, i, whole) ==
    [t EXCEPT ![p] = [st |-> IF @.writers \ {i} # {} THEN "partial"
                             ELSE IF @.raced /\ ~whole THEN "damaged"
                             ELSE "complete",
                      writers |-> @.writers \ {i}, src |-> @.src,
                      raced |-> @.raced]]

\* to_raster raised after it had created the file: the worker leaves a
\* partially written file behind
CloseFailed(t, p, i) ==
    [t EXCEPT ![p] = [st |-> "partial", writers |-> @.writers \ {i},
                      src |-> @.src, raced |-> @.raced]]

\* the outcomes of the last close of a path: whole, or mixed after a race
Wholeness(t, p) == IF t[p].raced THEN BOOLEAN ELSE {TRUE}

\* lines 100-140: the file is read, masked and scaled, and to_raster
\* starts writing the NDVI GeoTIFF
G_BeginNdvi ==
    /\ gpc = "pool"
    /\ \E i \in 1..Len(gfut) :
         /\ gfut[i] = "opening"
         /\ g_files[i].kind = "ok"
         /\ gfut' = [gfut EXCEPT ![i] = "ndvi"]
         /\ tiffs' = OpenForWrite(tiffs, NdviPath(i), i)
    /\ UNCHANGED <<g_run, g_seen, g_found, g_ok, gpc, g_files, gres, processed_count,
                   skipped_count, error_count>>
    /\ UNCHANGED <<yvars, mvars, ovars, qvars, svars, wvars, dvars>>

\* line 140 raises, lines 145-147 log the error and return None: to_raster
\* could not create the NDVI GeoTIFF, or failed after creating it and left
\* it partially written; the EVI GeoTIFF is not written
G_NdviFails ==
    /\ gpc = "pool"
    /\ \E i \in 1..Len(gfut) :
         /\ \/ /\ gfut[i] = "opening"
               /\ g_files[i].kind = "ok"
               /\ tiffs' = tiffs
            \/ /\ gfut[i] = "ndvi"
               /\ tiffs' = CloseFailed(tiffs, NdviPath(i), i)
         /\ gfut' = [gfut EXCEPT ![i] = "finished"]
         /\ gres' = [gres EXCEPT ![i] = "none"]
    /\ UNCHANGED <<g_run, g_seen, g_found, g_ok, gpc, g_files, processed_count,
                   skipped_count, error_count>>
    /\ UNCHANGED <<yvars, mvars, ovars, qvars, svars, wvars, dvars>>

\* line 141 raises, lines 145-147 log the error and return None: the NDVI
\* GeoTIFF is written, to_raster could not create the EVI GeoTIFF, or failed
\* after creating it and left it partially written
G_EviFails ==
    /\ gpc = "pool"
    /\ \E i \in 1..Len(gfut) :
         /\ \/ /\ gfut[i] = "ndvi"
               /\ \E whole \in Wholeness(tiffs, NdviPath(i)) :
                    tiffs' = CloseWritten(tiffs, NdviPath(i), i, whole)
            \/ /\ gfut[i] = "evi"
               /\ tiffs' = CloseFailed(tiffs, EviPath(i), i)
         /\ gfut' = [gfut EXCEPT ![i] = "finished"]
         /\ gres' = [gres EXCEPT ![i] = "none"]
    /\ UNCHANGED <<g_run, g_seen, g_found, g_ok, gpc, g_files, processed_count,
                   skipped_count, error_count>>
    /\ UNCHANGED <<yvars, mvars, ovars, qvars, svars, wvars, dvars>>

\* lines 140-141: the NDVI GeoTIFF is written, to_raster starts writing the
\* EVI GeoTIFF
G_BeginEvi ==
    /\ gpc = "pool"
    /\ \E i \in 1..Len(gfut) :
         /\ gfut[i] = "ndvi"
         /\ gfut' = [gfut EXCEPT ![i] = "evi"]
         /\ \E whole \in Wholeness(tiffs, NdviPath(i)) :
              tiffs' = OpenForWrite(CloseWritten(tiffs, NdviPath(i), i, whole),
                                    EviPath(i), i)
    /\ UNCHANGED <<g_run, g_seen, g_found, g_ok, gpc, g_files, gres, processed_count,
                   skipped_count, error_count>>
    /\ UNCHANGED <<yvars, mvars, ovars, qvars, svars, wvars, dvars>>

\* lines 141-143: the EVI GeoTIFF is written, return 'Successfully processed'
G_Finish ==
    /\ gpc = "pool"
    /\ \E i \in 1..Len(gfut) :
         /\ gfut[i] = "evi"
         /\ gfut' = [gfut EXCEPT ![i] = "finished"]
         /\ gres' = [gres EXCEPT ![i] = "success"]
         /\ \E whole \in Wholeness(tiffs, EviPath(i)) :
              tiffs' = CloseWritten(tiffs, EviPath(i), i, whole)
    /\ UNCHANGED <<g_run, g_seen, g_found, g_ok, gpc, g_files, processed_count, skipped_count,
                   error_count>>
    /\ UNCHANGED <<yvars, mvars, ovars, qvars, svars, wvars, dvars>>

\* the phrases of the collection loop that a piece of a file name holds
PhrasesIn(piece) == IF piece = 5 THEN {"Successfully processed"} ELSE {}

\* `phrase in result`: the result string of file i is the phrase its worker
\* returned ('Successfully processed' or 'Skipped (already exists)'), ': '
\* and base_filename
InResult(phrase, i) ==
    \/ phrase = "Successfully processed" /\ gres[i] = "success"
    \/ phrase = "Skipped" /\ gres[i] = "skipped"
    \/ \E k \in 1..Len(base_filename(g_files[i].name)) :
           phrase \in PhrasesIn(base_filename(g_files[i].name)[k])

\* lines 218-227: as_completed yields a finished future; a None result is
\* counted as an error, a result string that holds 'Successfully processed'
\* as processed, any other that holds 'Skipped' as skipped
G_Collect ==
    /\ gpc = "pool"
    /\ \E i \in 1..Len(gfut) :
         /\ gfut[i] = "finished"
         /\ gfut' = [gfut EXCEPT ![i] = "collected"]
         /\ processed_count' =
                IF gres[i] # "none" /\ InResult("Successfully processed", i)
                THEN processed_count + 1 ELSE processed_count
         /\ skipped_count' =
                IF /\ gres[i] # "none"
                   /\ ~InResult("Successfully processed", i)
                   /\ InResult("Skipped", i)
                THEN skipped_count + 1 ELSE skipped_count
         /\ error_count' =
                IF gres[i] = "none" THEN error_count + 1 ELSE error_count
    /\ UNCHANGED <<g_run, g_seen, g_found, g_ok, gpc, g_files, gres, tiffs>>
    /\ UNCHANGED <<yvars, mvars, ovars, qvars, svars, wvars, dvars>>

\* lines 229-235: every future is collected, the summary is logged
G_Summary ==
    /\ gpc = "pool"
    /\ \A i \in 1..Len(gfut) : gfut[i] = "collected"
    /\ gpc' = "returned"
    /\ UNCHANGED <<g_run, g_seen, g_found, g_ok, g_files, gfut, gres, tiffs, processed_count,
                   skipped_count, error_count>>
    /\ UNCHANGED <<yvars, mvars, ovars, qvars, svars, wvars, dvars>>

\* the processor is run again on the same folders: main() starts afresh and
\* the output folders hold what the run before left in them
G_Rerun ==
    /\ gpc = "returned"
    /\ g_run.n < MaxRuns
    /\ g_run' = [n |-> g_run.n + 1, origin |-> g_run.origin, before |-> tiffs,
                 clean |-> g_files # <<>> /\ error_count = 0]
    /\ gpc' = "start"
    /\ g_files' = <<>>
    /\ gfut' = <<>>
    /\ gres' = <<>>
    /\ g_seen' = <<>>
    /\ processed_count' = 0
    /\ skipped_count' = 0
    /\ error_count' = 0
    /\ UNCHANGED <<g_found, g_ok, tiffs>>
    /\ UNCHANGED <<yvars, mvars, ovars, qvars, svars, wvars, dvars>>

GNext ==
    \/ G_Rerun
    \/ G_InputMissing
    \/ G_LocateNone
    \/ G_Submit
    \/ G_WorkerStart
    \/ G_NoDate
    \/ G_Skip
    \/ G_Proceed
    \/ G_OpenFails
    \/ G_BeginNdvi
    \/ G_NdviFails
    \/ G_EviFails
    \/ G_BeginEvi
    \/ G_Finish
    \/ G_Collect
    \/ G_Summary

\* ========================================================================
\* HRRR downloader: data/scripts/HRRR/download_hrrr_data.py
\* ========================================================================

\* the days of a month the model tells apart
DaysOfMonth == {1, 2}

\* the dates of the calendar in ascending order, each as <<month, day>>
Calendar ==
    [k \in 1..(MaxMonths * Cardinality(DaysOfMonth)) |->
        <<(k + 1) \div Cardinality(DaysOfMonth),
          ((k + 1) % Cardinality(DaysOfMonth)) + 1>>]

Dates == {Calendar[k] : k \in DOMAIN Calendar}

\* pd.date_range(start_dt, end_dt, freq=interval_str): the dates from start
\* to end, none when start is after end
date_range(start, end) == SubSeq(Calendar, start, end)

\* date.to_period('M')
to_period_M(date) == date[1]

\* lines 107-108: the months of all_dates in order of first appearance, and
\* for each the dates of all_dates that fall in it
RECURSIVE unique_periods(_)
unique_periods(dates) ==
    IF dates = <<>> THEN <<>>
    ELSE LET rest == unique_periods(SubSeq(dates, 1, Len(dates) - 1))
             p == to_period_M(dates[Len(dates)])
         IN IF \E i \in 1..Len(rest) : rest[i] = p THEN rest
            ELSE Append(rest, p)

GroupByMonth(dates) ==
    LET monthly_periods == unique_periods(dates) IN
    [i \in 1..Len(monthly_periods) |->
        SelectSeq(dates, LAMBDA d : to_period_M(d) = monthly_periods[i])]

\* what str(e) of a download error holds: the text 'Cant open index file' or
\* another text
ErrorKinds == {"cant_open_index_file", "other"}

DEv(msg, batch, n) == [msg |-> msg, batch |-> batch, n |-> n]

\* The run starts from a date range, the content of the date folders of the
\* output directory, and the place the library saves a date's file to: the
\* date folder itself, or a folder of its own below the output directory.
DInit ==
    /\ \E start, end \in DOMAIN Calendar : all_dates = date_range(start, end)
    /\ save_layout \in {"date_folder", "model_folder"}
    /\ \E had \in SUBSET {all_dates[k] : k \in DOMAIN all_dates} :
         date_folders = [d \in Dates |-> [had |-> d \in had, has |-> d \in had]]
    /\ dpc = "start"
    /\ grouped_dates = <<>>
    /\ di = 0
    /\ download_thread = "none"
    /\ result_container = NoResult
    /\ fetched = {}
    /\ total_downloaded_count = 0
    /\ dlog = <<>>

\* lines 103-109: the monthly batches and the counter
D_Group ==
    /\ dpc = "start"
    /\ grouped_dates' = GroupByMonth(all_dates)
    /\ total_downloaded_count' = 0
    /\ di' = 1
    /\ dpc' = "batch"
    /\ UNCHANGED <<all_dates, save_layout, date_folders, download_thread,
                   result_container, fetched, dlog>>
    /\ UNCHANGED <<yvars, mvars, ovars, qvars, svars, wvars, gvars>>

\* os.remove of every *.grib2 file of the date folders of a batch
remove_existing(folders, month_batch) ==
    [d \in DOMAIN folders |->
        IF \E k \in 1..Len(month_batch) : month_batch[k] = d
        THEN [had |-> folders[d].had, has |-> FALSE]
        ELSE folders[d]]

\* lines 111-123: the batch starts, the GRIB2 files of its date folders are
\* deleted
D_BatchStart ==
    /\ dpc = "batch"
    /\ di <= Len(grouped_dates)
    /\ date_folders' = remove_existing(date_folders, grouped_dates[di])
    /\ dlog' = Append(dlog, DEv("processing_batch", di, 0))
    /\ dpc' = "init"
    /\ UNCHANGED <<all_dates, save_layout, grouped_dates, di, download_thread,
                   result_container, fetched, total_downloaded_count>>
    /\ UNCHANGED <<yvars, mvars, ovars, qvars, svars, wvars, gvars>>

\* lines 156-164: the handler of the batch logs the exception and goes on
\* with the next batch
BatchFailed(kind) ==
    /\ dlog' = Append(dlog, DEv(IF kind = "cant_open_index_file"
                                THEN "index_files_missing"
                                ELSE "unexpected_error", di, 0))
    /\ di' = di + 1
    /\ dpc' = "batch"

\* lines 126-133 raise: FastHerbie could not be built
D_InitFails ==
    /\ dpc = "init"
    /\ \E kind \in ErrorKinds : BatchFailed(kind)
    /\ UNCHANGED <<all_dates, save_layout, date_folders, grouped_dates,
                   download_thread, result_container, fetched,
                   total_downloaded_count>>
    /\ UNCHANGED <<yvars, mvars, ovars, qvars, svars, wvars, gvars>>

\* lines 126-138: FastHerbie is built, the container is emptied and the
\* download thread is started
D_StartThread ==
    /\ dpc = "init"
    /\ result_container' = NoResult
    /\ fetched' = {}
    /\ download_thread' = "alive"
    /\ dpc' = "poll"
    /\ UNCHANGED <<all_dates, save_layout, date_folders, grouped_dates, di,
                   total_downloaded_count, dlog>>
    /\ UNCHANGED <<yvars, mvars, ovars, qvars, svars, wvars, gvars>>

\* fh.download(pattern) in the worker thread saves the file of one date of
\* the batch
W_Fetch ==
    /\ download_thread = "alive"
    /\ \E k \in 1..Len(grouped_dates[di]) :
         LET date == grouped_dates[di][k] IN
         /\ date \notin fetched
         /\ fetched' = fetched \cup {date}
         /\ date_folders' =
                IF save_layout = "date_folder"
                THEN [date_folders EXCEPT ![date].has = TRUE]
                ELSE date_folders
    /\ UNCHANGED <<all_dates, save_layout, dpc, grouped_dates, di,
                   download_thread, result_container, total_downloaded_count,
                   dlog>>
    /\ UNCHANGED <<yvars, mvars, ovars, qvars, svars, wvars, gvars>>

\* lines 52-53: download returned, the worker stores the list and ends
W_Return ==
    /\ download_thread = "alive"
    /\ result_container' = [result_container EXCEPT
                                !.keys = @ \cup {"files"}, !.files = fetched]
    /\ download_thread' = "dead"
    /\ UNCHANGED <<all_dates, save_layout, date_folders, dpc, grouped_dates, di,
                   fetched, total_downloaded_count, dlog>>
    /\ UNCHANGED <<yvars, mvars, ovars, qvars, svars, wvars, gvars>>

\* lines 54-55: download raised, the worker stores the exception and ends
W_Raise ==
    /\ download_thread = "alive"
    /\ \E kind \in ErrorKinds :
         result_container' = [result_container EXCEPT
                                  !.keys = @ \cup {"error"}, !.error = kind]
    /\ download_thread' = "dead"
    /\ UNCHANGED <<all_dates, save_layout, date_folders, dpc, grouped_dates, di,
                   fetched, total_downloaded_count, dlog>>
    /\ UNCHANGED <<yvars, mvars, ovars, qvars, svars, wvars, gvars>>

\* the wait if the main thread went on after one join(60)
D_Join_once ==
    /\ dpc = "poll"
    /\ dpc' = "joined"
    /\ UNCHANGED <<all_dates, save_layout, date_folders, grouped_dates, di,
                   download_thread, result_container, fetched,
                   total_downloaded_count, dlog>>
    /\ UNCHANGED <<yvars, mvars, ovars, qvars, svars, wvars, gvars>>

\* lines 140-142: the loop around join(60) ends when is_alive() is false
D_Join ==
    /\ dpc = "poll"
    /\ download_thread # "alive"
    /\ dpc' = "joined"
    /\ UNCHANGED <<all_dates, save_layout, date_folders, grouped_dates, di,
                   download_thread, result_container, fetched,
                   total_downloaded_count, dlog>>
    /\ UNCHANGED <<yvars, mvars, ovars, qvars, svars, wvars, gvars>>

\* lines 144-145 and 156-164: the worker's exception is raised again in the
\* main thread and handled as a failed batch
D_ReadError ==
    /\ dpc = "joined"
    /\ "error" \in result_container.keys
    /\ BatchFailed(result_container.error)
    /\ UNCHANGED <<all_dates, save_layout, date_folders, grouped_dates,
                   download_thread, result_container, fetched,
                   total_downloaded_count>>
    /\ UNCHANGED <<yvars, mvars, ovars, qvars, svars, wvars, gvars>>

\* lines 147-154: result_container.get('files') is counted when it is not
\* empty
D_ReadFiles ==
    /\ dpc = "joined"
    /\ "error" \notin result_container.keys
    /\ LET downloaded_files ==
               IF "files" \in result_container.keys
               THEN result_container.files ELSE {}
           count == Cardinality(downloaded_files)
       IN IF downloaded_files # {}
          THEN /\ total_downloaded_count' = total_downloaded_count + count
               /\ dlog' = Append(dlog, DEv("downloaded", di, count))
          ELSE /\ total_downloaded_count' = total_downloaded_count
               /\ dlog' = Append(dlog, DEv("no_new_files", di, 0))
    /\ di' = di + 1
    /\ dpc' = "batch"
    /\ UNCHANGED <<all_dates, save_layout, date_folders, grouped_dates,
                   download_thread, result_container, fetched>>
    /\ UNCHANGED <<yvars, mvars, ovars, qvars, svars, wvars, gvars>>

\* lines 166-169: every batch was attempted, the total is logged
D_Summary ==
    /\ dpc = "batch"
    /\ di > Len(grouped_dates)
    /\ dlog' = Append(dlog, DEv("download_complete", 0, total_downloaded_count))
    /\ dpc' = "returned"
    /\ UNCHANGED <<all_dates, save_layout, date_folders, grouped_dates, di,
                   download_thread, result_container, fetched,
                   total_downloaded_count>>
    /\ UNCHANGED <<yvars, mvars, ovars, qvars, svars, wvars, gvars>>

DNext ==
    \/ D_Group
    \/ D_BatchStart
    \/ D_InitFails
    \/ D_StartThread
    \/ W_Fetch
    \/ W_Return
    \/ W_Raise
    \/ D_Join
    \/ D_ReadError
    \/ D_ReadFiles
    \/ D_Summary

\* ========================================================================
\* Specifications
\* ========================================================================

Init == YInit /\ MIdle /\ OIdle /\ XIdle

Spec == Init /\ [][Next]_vars

InitModis == MInit /\ YIdle /\ OIdle /\ XIdle

SpecModis == InitModis /\ [][MNext]_vars

\* either assembler runs: the yearly HRRR processor or the MODIS converter
InitAssemblers == Init \/ InitModis

NextAssemblers == Next \/ MNext

SpecAssemblers == InitAssemblers /\ [][NextAssemblers]_vars

InitOrch ==
    OInit /\ OStatic /\ YIdle /\ MIdle /\ QIdle /\ WIdle /\ GIdle /\ DIdle

SpecOrch == InitOrch /\ [][ONext]_vars

\* the yearly HRRR processor on a tree with intermediate folders
InitLayouts == YInitLayouts /\ MIdle /\ OIdle /\ XIdle

SpecLayouts == InitLayouts /\ [][Next]_vars

\* the quality filter of one MODIS file
InitQA == QInit /\ YIdle /\ MIdle /\ OIdle /\ SIdle /\ WIdle /\ GIdle /\ DIdle

SpecQA == InitQA /\ [][QNext]_vars

\* the elevation and fire converters
InitStatic == SInit /\ YIdle /\ MIdle /\ OIdle /\ QIdle /\ WIdle /\ GIdle /\ DIdle

SpecStatic == InitStatic /\ [][SNext]_vars

\* the unified HRRR converter
InitWeather == WInit /\ YIdle /\ MIdle /\ OIdle /\ QIdle /\ SIdle /\ GIdle /\ DIdle

SpecWeather == InitWeather /\ [][WNext]_vars

\* the MODIS GeoTIFF processor
InitGeotiff == GInit /\ YIdle /\ MIdle /\ OIdle /\ QIdle /\ SIdle /\ WIdle /\ DIdle

SpecGeotiff == InitGeotiff /\ [][GNext]_vars

\* the HRRR downloader
InitDownload == DInit /\ YIdle /\ MIdle /\ OIdle /\ QIdle /\ SIdle /\ WIdle /\ GIdle

SpecDownload == InitDownload /\ [][DNext]_vars

\* ========================================================================
\* Properties of the yearly HRRR processor
\* ========================================================================

\* the file list of the year being processed
CurFiles == files_by_year[yi].files

\* the per-file loop of the current year has visited every file
LoopDone == pc = "file" /\ fi > Len(CurFiles)

RemoveAt(s, k) == SubSeq(s, 1, k - 1) \o SubSeq(s, k + 1, Len(s))

ReplaceAt(s, k, x) == [s EXCEPT ![k] = x]

\* what a batch contributes when each file is parsed on its own
Contributions(fl) ==
    SelectSeq([i \in 1..Len(fl) |-> process_single_grib_file(fl[i], bad_filters).ds],
              Truthy)

\* the same file with sound content
Repaired(f) == [f EXCEPT !.corrupt = FALSE]

\* C1: isolation. When the loop of a year is over, every corrupted file of
\* the batch has produced no raster, the list of processed datasets has
\* exactly one entry fewer than the batch with that file repaired would
\* give, and it equals the list the batch without that file gives.
C1_Isolation ==
    LoopDone =>
        \A k \in 1..Len(CurFiles) :
            CurFiles[k].corrupt =>
                /\ \A i \in 1..Len(processed_datasets) :
                       processed_datasets[i].src # CurFiles[k].name
                /\ Len(processed_datasets) + 1 =
                       Len(Contributions(ReplaceAt(CurFiles, k, Repaired(CurFiles[k]))))
                /\ processed_datasets = Contributions(RemoveAt(CurFiles, k))

\* a batch with a corrupted file followed by a file that gave a raster
C1_Witness ==
    /\ LoopDone
    /\ bad_filters = {}
    /\ \E k \in 1..Len(CurFiles) :
         /\ CurFiles[k].corrupt
         /\ \E j \in (k + 1)..Len(CurFiles) :
              \E i \in 1..Len(processed_datasets) :
                  processed_datasets[i].src = CurFiles[j].name

\* the files whose processing is over
Visited(f) == opens[f.name] > 0

\* the log holds a record of this level and kind naming the file
Logged(lvl, msg, name) ==
    \E i \in 1..Len(log) :
        log[i].lvl = lvl /\ log[i].msg = msg /\ log[i].file = name

\* C3: a file whose opening raised a truncation error has been classified as
\* corrupted: a warning-level 'corrupted file' record names it and it gave no
\* raster.
C3_CorruptionSignalled ==
    \A f \in found :
        (bad_filters = {} /\ f.corrupt /\ Visited(f)) =>
            /\ Logged("warning", "corrupted_file", f.name)
            /\ \A i \in 1..Len(processed_datasets) :
                   processed_datasets[i].src # f.name

\* the levels of a file whose filter yields data
PresentLevels(f) ==
    {l \in Levels : open_dataset(f, bad_filters, l) = "data"}

\* C6: for every file the per-file loop has visited, every level filter was
\* attempted; if at least one level gave data the file contributed a merged
\* raster holding exactly the levels present, and a sound file with absent
\* levels left no failure record.
C6_AbsentLevelSkipped ==
    pc = "file" =>
        \A i \in 1..(fi - 1) :
            LET f == CurFiles[i] IN
            /\ opens[f.name] = Len(LEVEL_FILTERS)
            /\ PresentLevels(f) # {} =>
                   \E j \in 1..Len(processed_datasets) :
                       /\ processed_datasets[j].src = f.name
                       /\ processed_datasets[j].vars = PresentLevels(f)
            /\ ~f.corrupt => \A e \in 1..Len(log) : log[e].file # f.name

\* a visited file that lacks a level (the filter raised) and another (the
\* filter matched nothing) and still gave a raster
C6_Witness ==
    /\ pc = "file"
    /\ \E i \in 1..(fi - 1) :
         /\ CurFiles[i].lv["10m"] = "missing"
         /\ CurFiles[i].lv["surface"] = "empty"
         /\ bad_filters = {}
         /\ \E j \in 1..Len(processed_datasets) :
              /\ processed_datasets[j].src = CurFiles[i].name
              /\ processed_datasets[j].vars = {"2m"}

\* C7: a run whose level filters are misconfigured produces no output.
C7_MisconfigurationAborts ==
    bad_filters # {} => \A y \in Years : outputs[y].st = "absent"

\* position of the first record of the run summary in the log, 0 if none
SummaryStart ==
    IF \E i \in 1..Len(log) : log[i].msg = "processing_complete"
    THEN CHOOSE i \in 1..Len(log) : log[i].msg = "processing_complete"
    ELSE 0

\* the files of a year that give a raster
WithData(fl) == {i \in 1..Len(fl) : PresentLevels(fl[i]) # {}}

\* C5: at the end of a run every corrupted file is named in the run summary,
\* and every yearly output written has one time step per file that gave a
\* raster.
C5_SkippedFilesInSummary ==
    (pc = "returned" /\ grib_files # <<>> /\ bad_filters = {}) =>
        /\ \A f \in found :
               f.corrupt =>
                   \E i \in 1..Len(log) :
                       /\ SummaryStart # 0
                       /\ i >= SummaryStart
                       /\ log[i].file = f.name
        /\ \A k \in 1..Len(files_by_year) :
               outputs[files_by_year[k].year].st = "complete" =>
                   Len(outputs[files_by_year[k].year].ds) =
                       Cardinality(WithData(files_by_year[k].files))

\* the log records of this level and kind that name the year
YearRecords(lvl, msg, year) ==
    {i \in 1..Len(log) :
        log[i].lvl = lvl /\ log[i].msg = msg /\ log[i].year = year}

\* the run went through the year loop and returned
RunOver == pc = "returned" /\ grib_files # <<>>

\* the sources of the time steps of a written output
Sources(ds) == {ds[i].src : i \in 1..Len(ds)}

\* C9: at the end of a run, a year none of whose files gave a raster has no
\* output file and exactly one 'no valid datasets' warning naming it, no
\* other year carries that warning, every year of the run was visited, and
\* every year whose file was saved holds the time steps of its own files.
C9_EmptyYearSkipped ==
    RunOver =>
        \A k \in 1..Len(files_by_year) :
            LET y == files_by_year[k].year
                fl == files_by_year[k].files
            IN /\ Cardinality(YearRecords("info", "processing_year", y)) = 1
               /\ WithData(fl) = {} =>
                      /\ outputs[y] = Absent
                      /\ Cardinality(YearRecords("warning", "no_valid_datasets", y)) = 1
               /\ WithData(fl) # {} =>
                      YearRecords("warning", "no_valid_datasets", y) = {}
               /\ YearRecords("info", "saved", y) # {} =>
                      /\ outputs[y].st = "complete"
                      /\ Sources(outputs[y].ds) = {fl[i].name : i \in WithData(fl)}

\* a finished run whose first year gave nothing and whose second year was
\* written
C9_Witness ==
    /\ RunOver
    /\ Len(files_by_year) = 2
    /\ WithData(files_by_year[1].files) = {}
    /\ outputs[files_by_year[1].year] = Absent
    /\ outputs[files_by_year[2].year].st = "complete"

\* C10 (state part): a year whose save failed is not published as complete
\* and is not counted, the counter equals the number of complete outputs, and
\* at the end of the run every year has been visited and every year that was
\* combined was either saved or reported as failed.
C10_State ==
    /\ \A y \in Years :
           YearRecords("error", "save_failed", y) # {} => outputs[y].st # "complete"
    /\ total_success = Cardinality({y \in Years : outputs[y].st = "complete"})
    /\ RunOver =>
           \A k \in 1..Len(files_by_year) :
               LET y == files_by_year[k].year IN
               /\ YearRecords("info", "processing_year", y) # {}
               /\ (YearRecords("info", "combined", y) # {}
                   /\ YearRecords("error", "save_failed", y) = {}) =>
                      outputs[y].st = "complete"

\* C10 (step part): no step changes an output that is already published
C10_Step ==
    \A y \in Years : outputs[y].st = "complete" => outputs'[y] = outputs[y]

\* C10: if persisting the output of a year fails, only that year's
\* publication is abandoned: outputs already written stay published, the
\* remaining years are still processed and written, and the failed year is
\* not counted as a success.
C10_SaveFailureIsolated == [](C10_State) /\ [][C10_Step]_vars

\* a finished run whose first year failed to save and whose second year was
\* written after it
C10_Witness ==
    /\ RunOver
    /\ Len(files_by_year) = 2
    /\ YearRecords("error", "save_failed", files_by_year[1].year) # {}
    /\ outputs[files_by_year[2].year].st = "complete"
    /\ total_success = 1

\* ========================================================================
\* Properties of the temporal assembly
\* ========================================================================

\* the MODIS time series has been assembled
Assembled == mpc \in {"resample", "raised"}

NonDecreasing(ds) ==
    \A i, j \in 1..Len(ds) : i < j => ds[i].time <= ds[j].time

\* C4: every assembled dataset (the yearly HRRR dataset and the MODIS time
\* series) has non-decreasing time values and one step per collected result,
\* whatever the order in which the results were collected.
C4_TimeNonDecreasing ==
    /\ Assembled =>
           /\ NonDecreasing(combined_ds)
           /\ Len(combined_ds) = Len(all_daily_datasets)
           /\ Sources(combined_ds) = {all_daily_datasets[i].src :
                                         i \in 1..Len(all_daily_datasets)}
    /\ pc = "save" =>
           /\ NonDecreasing(final_ds)
           /\ Len(final_ds) = Len(processed_datasets)

\* the pool delivered a later date before an earlier one and the series was
\* assembled
C4_Witness ==
    /\ Assembled
    /\ \E i, j \in 1..Len(all_daily_datasets) :
         i < j /\ all_daily_datasets[i].time > all_daily_datasets[j].time

\* the time values of the collected results
CollectedTimes ==
    {all_daily_datasets[i].time : i \in 1..Len(all_daily_datasets)}

\* position of the result collected last among those of time t
LastCollected(t) ==
    CHOOSE j \in 1..Len(all_daily_datasets) :
        /\ all_daily_datasets[j].time = t
        /\ \A k \in 1..Len(all_daily_datasets) :
               all_daily_datasets[k].time = t => k <= j

\* C2: the assembled time series has exactly one entry for every timestamp,
\* holding the values of the file processed last among those that map to it.
C2_LastWriteWins ==
    Assembled =>
        \A t \in CollectedTimes :
            LET at == {i \in 1..Len(combined_ds) : combined_ds[i].time = t} IN
            /\ Cardinality(at) = 1
            /\ \A i \in at :
                   combined_ds[i].src = all_daily_datasets[LastCollected(t)].src

\* C8: a run of the converter whose locator found no source file ends with a
\* status its caller takes as a failure.
C8_NoSourceSignalled ==
    (hdf_found = {} /\ mpc = "returned") => CalledProcessError(mexit)

\* ========================================================================
\* Properties of publication and of the quality filter at file level
\* ========================================================================

\* C11: publication is atomic: a destination path never holds a partially
\* written file.
C11_AtomicPublication ==
    \A y \in Years : outputs[y].st \in {"absent", "complete"}

\* the submitted files whose result the parent has collected
CollectedFiles ==
    {hdf_files[i] : i \in {j \in 1..Len(futures) : futures[j] = "collected"}}

\* the files that lack the 'pixel reliability' subdataset
NoQaFiles == {f \in CollectedFiles : f.dated /\ f.kind = "noqa"}

\* C13 as stated: a collected file without a QA layer has still contributed
\* its data variables.
C13_NoQaIsNoop ==
    \A f \in NoQaFiles :
        \E i \in 1..Len(all_daily_datasets) : all_daily_datasets[i].src = f.id

\* C13 as amended: a collected file without a QA layer contributes no
\* dataset, an error record names it, and the assembled series holds the
\* steps of exactly the readable dated files that have a QA layer.
C13_NoQaFileSkipped ==
    /\ \A f \in NoQaFiles :
           /\ \A i \in 1..Len(all_daily_datasets) :
                  all_daily_datasets[i].src # f.id
           /\ \E i \in 1..Len(mlog) :
                  /\ mlog[i].lvl = "error"
                  /\ mlog[i].msg = "error_processing"
                  /\ mlog[i].file = f.id
    /\ Assembled =>
           Sources(combined_ds) =
               {f.id : f \in {g \in hdf_found : g.dated /\ g.kind = "ok"}}

\* a file without a QA layer was collected and another file gave a step of
\* the assembled series
C13_Witness ==
    /\ Assembled
    /\ NoQaFiles # {}
    /\ combined_ds # <<>>

\* position in the configured filter order of the first level of a file
\* that gives data and carries a height coordinate, 0 if there is none
FirstWithCoord(f) ==
    LET S == {i \in 1..Len(LEVEL_FILTERS) :
                 /\ LEVEL_FILTERS[i] \in PresentLevels(f)
                 /\ LevelCoord(LEVEL_FILTERS[i]) # NoCoord} IN
    IF S = {} THEN 0 ELSE CHOOSE i \in S : \A j \in S : i <= j

\* C18: the merged raster of a file carries, for the coordinate on which its
\* level groups disagree, the value of the group processed first in the
\* configured filter order; a later group never overrides it.
C18_FirstGroupWins ==
    \A i \in 1..Len(processed_datasets) :
        \A f \in found :
            f.name = processed_datasets[i].src =>
                LET k == FirstWithCoord(f) IN
                processed_datasets[i].coord =
                    IF k = 0 THEN NoCoord ELSE LevelCoord(LEVEL_FILTERS[k])

\* a merged raster holding the 2m and the 10m group, which disagree on the
\* height coordinate
C18_Witness ==
    \E i \in 1..Len(processed_datasets) :
        /\ {"2m", "10m"} \subseteq processed_datasets[i].vars
        /\ LevelCoord("2m") # LevelCoord("10m")
        /\ processed_datasets[i].coord = LevelCoord("2m")

\* C19 as stated: a corrupted file is opened once, and the loop of a batch
\* visits each of its files once.
C19_CorruptionClassifiedOnce ==
    /\ \A f \in found : (f.corrupt /\ bad_filters = {}) => opens[f.name] <= 1
    /\ pc = "file" => fi <= Len(CurFiles) + 1

\* the grouping has been done
Grouped == pc # "start"

\* C17 as stated: the batches come in lexical order of the year key and the
\* files of each batch in lexical order of their path.
C17_LexicalBatchOrder ==
    Grouped =>
        /\ \A i, j \in 1..Len(files_by_year) :
               i < j => LexLess(files_by_year[i].year, files_by_year[j].year)
        /\ \A b \in 1..Len(files_by_year) :
               \A i, j \in 1..Len(files_by_year[b].files) :
                   i < j => PathLess(files_by_year[b].files[i],
                                     files_by_year[b].files[j])

\* the QA value of a cell is one of the valid QA values
ValidCell(c) == ~qa_da[c].nan /\ qa_da[c].num \in VALID_QA_VALUES

\* C12: in every cleaned vegetation array, a cell whose QA value is not valid
\* is missing, and a cell whose QA value is valid holds the stored value
\* times the scale factor (missing if the stored value is the fill value).
C12_InvalidCellsMasked ==
    \A i \in 1..Len(processed_vars) :
        \A c \in Cells :
            LET raw == var_das[processed_vars[i].name][c]
                out == processed_vars[i].data[c]
            IN /\ ~ValidCell(c) => out.nan
               /\ ValidCell(c) =>
                      IF raw.nan THEN out.nan
                      ELSE /\ ~out.nan
                           /\ out.num * SCALE_FACTOR.den
                                  = raw.num * SCALE_FACTOR.num * out.den

\* both variables cleaned for a file with an invalid cell that stores a
\* number and a valid cell that stores a number
C12_Witness ==
    /\ qpc = "returned"
    /\ Len(processed_vars) = Len(VEGETATION_VARS_ORDER)
    /\ \E c, d \in Cells :
         /\ ~ValidCell(c) /\ ~qa_da[c].nan
         /\ ValidCell(d)
         /\ \A v \in VEGETATION_VARS :
                ~var_das[v][c].nan /\ ~var_das[v][d].nan

\* the extent of an array along its last two (spatial) dimensions
SpatialShape(a) == SubSeq(a.shape, Len(a.shape) - 1, Len(a.shape))

\* C14: every dataset written to data/unified has the y and x coordinate
\* arrays of the master grid, value for value, and every data variable has
\* the master grid's shape along its spatial dimensions.
C14_OutputsOnMasterGrid ==
    \A n \in UnifiedNames :
        unified[n].st = "complete" =>
            LET ds == unified[n].ds IN
            /\ ds.coords.y = master_grid.y
            /\ ds.coords.x = master_grid.x
            /\ \A v \in DOMAIN ds.data_vars :
                   /\ SpatialShape(ds.data_vars[v]) = master_grid.shape
                   /\ SpatialShape(ds.data_vars[v])
                          = <<Len(ds.coords.y), Len(ds.coords.x)>>

\* an output written on a grid of more than one row and column
C14_Witness ==
    \E n \in UnifiedNames :
        /\ unified[n].st = "complete"
        /\ Len(unified[n].ds.coords.y) > 1
        /\ Len(unified[n].ds.coords.x) > 1

\* C16 as stated: when the source raster holds the same constant in every
\* cell, every cell of the written elevation output has that constant as
\* its mean and a standard deviation of 0.
C16_ConstantInConstantOut ==
    (sprog = "srtm" /\ src_present /\ unified["elevation"].st = "complete") =>
        LET dv == unified["elevation"].ds.data_vars IN
        \A c \in GridCells(master_grid.shape) :
            /\ dv.elevation_mean.data[c] = Num(src_value)
            /\ dv.elevation_std.data[c] = Num(0)

\* C15 as stated: a regridding failure aborts the run: once a file has
\* failed to reproject no further file is processed, and the script does
\* not end with status 0.
C15_RegridFailureAborts ==
    /\ \A i, j \in 1..Len(wlog) :
           (i < j /\ wlog[i].msg = "failed_to_reproject") =>
               wlog[j].msg # "processing_file"
    /\ (\E i \in 1..Len(wlog) : wlog[i].msg = "failed_to_reproject") =>
           wexit # 0

\* C20 as stated: no output path of the GeoTIFF processor is being written
\* by two workers at once.
C20_SingleWriterPerPath ==
    gpc = "pool" => \A p \in GPaths : Cardinality(tiffs[p].writers) <= 1

\* ========================================================================
\* Properties of result collection
\* ========================================================================

\* the datasets of the submitted files, in submission order
RECURSIVE InSubmissionOrder(_)
InSubmissionOrder(files) ==
    IF files = <<>> THEN <<>>
    ELSE LET result_ds == process_single_hdf(Head(files)).ds
         IN (IF result_ds.some THEN <<result_ds>> ELSE <<>>)
                \o InSubmissionOrder(Tail(files))

\* C21: temporal assembly starts only after every submitted file has returned
\* a dataset or a failure signal, and the assembled, time-sorted dataset is
\* the same for every order in which the workers complete (it equals the
\* dataset assembled when the results arrive in submission order).
C21_OrderIndependentAssembly ==
    Assembled =>
        /\ AllCollected
        /\ combined_ds = sortby_time(concat(InSubmissionOrder(hdf_files)))

\* ========================================================================
\* Properties of the run summary
\* ========================================================================

\* the records of the summary line "Successfully created n/total ..."
SummaryRecords == {i \in 1..Len(log) : log[i].msg = "summary_created"}

\* the year groups of the run whose output file was written
WrittenYears ==
    {k \in 1..Len(files_by_year) : outputs[files_by_year[k].year].st = "complete"}

\* the outcome records logged for a year: saved, or one of the failures
Outcomes(year) ==
    {i \in 1..Len(log) :
        /\ log[i].year = year
        /\ log[i].msg \in {"saved", "save_failed", "combine_failed",
                           "no_valid_datasets"}}

\* C22: at the end of a run of the yearly HRRR processor every year group has
\* exactly one outcome record (saved or failed), the summary is logged once,
\* its success count is the number of years whose output file was written,
\* its total is the number of year groups, and so (total - success) is the
\* number of year groups with no output.
C22_SummaryCounts ==
    RunOver =>
        /\ Cardinality(SummaryRecords) = 1
        /\ \A i \in SummaryRecords :
               /\ log[i].n = Cardinality(WrittenYears)
               /\ log[i].total = Len(files_by_year)
               /\ log[i].total - log[i].n =
                      Cardinality((1..Len(files_by_year)) \ WrittenYears)
        /\ \A k \in 1..Len(files_by_year) :
               /\ Cardinality(Outcomes(files_by_year[k].year)) = 1
               /\ (k \in WrittenYears) <=>
                      YearRecords("info", "saved", files_by_year[k].year) # {}

\* a finished run of two year groups that wrote one output and reported 1/2
C22_Witness ==
    /\ RunOver
    /\ Len(files_by_year) = 2
    /\ Cardinality(WrittenYears) = 1
    /\ \E i \in SummaryRecords : log[i].n = 1 /\ log[i].total = 2

\* ========================================================================
\* Properties of the orchestrator
\* ========================================================================

\* positions of the records of this kind in the orchestrator's output
ORecords(msg) == {i \in 1..Len(olog) : olog[i].msg = msg}

\* C23: the scripts are started in list order (SRTM, MODIS, CALFIRE, HRRR),
\* a script is started only after every script before it existed and ended
\* with status zero, none is started past the first missing or failing
\* script, the run then exits with status 1, and the success banner is
\* printed only when all four scripts existed and exited with status zero.
C23_SequentialFailFast ==
    /\ scripts_to_run =
           <<"process_srtm", "process_modis", "process_calfire", "process_hrrr">>
    /\ \A k \in 1..Len(started) :
           /\ started[k] = k
           /\ \A j \in 1..(k - 1) :
                  /\ stages[j] # "missing"
                  /\ j <= Len(returncodes)
                  /\ returncodes[j] = 0
    /\ Len(started) =
           (IF opc = "waiting" THEN Len(returncodes) + 1 ELSE Len(returncodes))
    /\ opc # "waiting" => spc \notin {"start", "data", "built"}
    /\ \A i \in ORecords("running") :
           IF i = Len(olog) THEN opc = "waiting"
           ELSE /\ olog[i + 1].script = olog[i].script
                /\ olog[i + 1].msg \in {"finished", "error_running"}
    /\ \A i \in ORecords("error_running") \cup ORecords("script_not_found") :
           i = Len(olog) /\ opc = "exited"
    /\ opc = "exited" =>
           /\ oexit = 1
           /\ \/ stages[si] = "missing" /\ Len(started) = si - 1
              \/ /\ Len(started) = si
                 /\ returncodes[si] # 0
    /\ ORecords("completed_successfully") # {} <=> opc = "returned"
    /\ opc = "returned" =>
           /\ oexit = 0
           /\ Len(started) = Len(scripts_to_run)
           /\ \A i \in 1..Len(scripts_to_run) :
                  stages[i] # "missing" /\ returncodes[i] = 0

\* the fire converter, third in the list, failed while it wrote its output
\* after the elevation converter had written its file and ended; the fourth
\* script, which exists, was not started
C23_Witness ==
    /\ opc = "exited"
    /\ started = <<1, 2, 3>>
    /\ returncodes = <<0, 0, 1>>
    /\ stages[4] = "ok"
    /\ unified["elevation"].st = "complete"
    /\ unified["fire"].st = "partial"

\* ========================================================================
\* Properties of repeated runs of the GeoTIFF processor
\* ========================================================================

\* the worker calls that have returned
GReturned == {i \in 1..Len(gfut) : gfut[i] \in {"finished", "collected"}}

\* both outputs of file i are there, written by a worker of some run; an
\* output that file i wrote last and alone is whole once closed
BothWritten(i) ==
    \A p \in {NdviPath(i), EviPath(i)} :
        /\ tiffs[p].st # "absent"
        /\ tiffs[p].src # 0
        /\ (tiffs[p].src = i /\ tiffs[p].writers = {} /\ ~tiffs[p].raced)
               => tiffs[p].st = "complete"

\* a file whose two outputs exist is reported as skipped and its worker
\* writes nothing; a run that follows a run without errors processes no file
\* and leaves every output as it found it
SkipsCompletedWork ==
    /\ \A i \in 1..Len(g_seen) :
           /\ g_seen[i].found = {"NDVI", "EVI"} <=> gres[i] = "skipped"
           /\ gres[i] = "skipped" =>
                  \A p \in GPaths : i \notin tiffs[p].writers
    /\ g_run.clean =>
           /\ error_count = 0
           /\ tiffs = g_run.before
           /\ \A i \in GReturned : gres[i] = "skipped"
           /\ gpc = "returned" => GReturned = 1..Len(g_files)

Counted(kind) == {i \in 1..Len(gfut) : gfut[i] = "collected" /\ gres[i] = kind}

\* C27 as stated: each collected file is counted in exactly one counter (a
\* worker that returned None as an error, a 'Skipped' result as skipped, a
\* 'Successfully processed' result as processed), and after all futures have
\* been collected the three counters add up to the number of HDF files
\* submitted.
C27_CountersPartitionFiles ==
    gpc \in {"pool", "returned"} =>
        /\ processed_count = Cardinality(Counted("success"))
        /\ skipped_count = Cardinality(Counted("skipped"))
        /\ error_count = Cardinality(Counted("none"))
        /\ (\A i \in 1..Len(gfut) : gfut[i] = "collected") =>
               processed_count + skipped_count + error_count = Len(g_files)

\* ========================================================================
\* Properties of the unified weather output
\* ========================================================================

\* the files that parse and hold at least one of CONFIG['HRRR_VARS']
Eligible ==
    {i \in 1..Len(w_files) :
        w_process_single_grib_file(w_files[i]).ds.some /\ w_files[i].req}

\* C25 as stated: if at least one GRIB2 file parses and holds a required
\* variable, the run of the unified HRRR converter gets past the 'no data'
\* exit to the save step with exactly one reprojected time step for each
\* such file.
C25_EligibleFilesSaved ==
    (wpc = "returned" /\ Eligible # {}) =>
        /\ Len(all_reprojected_data) = Cardinality(Eligible)
        /\ \A i \in 1..Len(wlog) : wlog[i].msg # "no_data_processed"

\* ========================================================================
\* Properties of the grouping by year
\* ========================================================================

\* the positions (group, index) at which a file lies in files_by_year
PositionsOf(f) ==
    {gj \in {<<g, j>> : g \in 1..Len(files_by_year), j \in 1..MaxFiles + 1} :
        /\ gj[2] <= Len(files_by_year[gj[1]].files)
        /\ files_by_year[gj[1]].files[gj[2]] = f}

\* key holds the first four characters of the name, all of it when shorter
FirstFour(key, name) ==
    /\ Len(key) = (IF Len(name) < 4 THEN Len(name) ELSE 4)
    /\ \A c \in 1..Len(key) : key[c] = name[c]

\* C26: after grouping, every GRIB2 file found by the locator lies in exactly
\* one year group and once in it, the groups hold nothing else, no two groups
\* share a key, and the key of a group is the first four characters of the
\* parent directory name of each of its files, whatever that name is.
C26_GroupingPartitions ==
    Grouped =>
        /\ \A f \in found : Cardinality(PositionsOf(f)) = 1
        /\ \A g \in 1..Len(files_by_year) :
               /\ files_by_year[g].files # <<>>
               /\ \A j \in 1..Len(files_by_year[g].files) :
                      /\ files_by_year[g].files[j] \in found
                      /\ FirstFour(files_by_year[g].year,
                                   files_by_year[g].files[j].dir)
        /\ \A g, h \in 1..Len(files_by_year) :
               g # h => files_by_year[g].year # files_by_year[h].year

\* three files were grouped: two of one year in folders of different parents
\* and one in a folder whose name is shorter than four characters
C26_Witness ==
    /\ Grouped
    /\ Len(files_by_year) = 2
    /\ \E g, h \in 1..2 :
         /\ Len(files_by_year[g].files) = 2
         /\ files_by_year[g].files[1].top # files_by_year[g].files[2].top
         /\ Len(files_by_year[h].year) < 4

\* ========================================================================
\* Properties of repeated runs of the static converters
\* ========================================================================

\* the output file of the converter that is running
OutputName == IF sprog = "srtm" THEN "elevation" ELSE "fire"

\* C30 as stated: two runs of the elevation or fire converter over the same
\* master grid and the same source directory write identical data variables.
C30_DeterministicValues ==
    (spc = "returned" /\ unified[OutputName].st = "complete") =>
        \A k \in 1..Len(s_runs) :
            s_runs[k][OutputName].st = "complete" =>
                unified[OutputName].ds.data_vars =
                    s_runs[k][OutputName].ds.data_vars

\* ========================================================================
\* Properties of the HRRR downloader
\* ========================================================================

\* the records that close a batch, and those among them that report a failure
BatchOutcomes ==
    {"downloaded", "no_new_files", "index_files_missing", "unexpected_error"}

BatchFailures == {"index_files_missing", "unexpected_error"}

\* positions of the outcome records of a batch
OutcomesOf(b) ==
    {i \in 1..Len(dlog) : dlog[i].batch = b /\ dlog[i].msg \in BatchOutcomes}

\* the batches main() has finished with
FinishedBatches ==
    IF dpc \in {"start", "idle"} THEN {}
    ELSE {b \in 1..Len(grouped_dates) : b < di}

RECURSIVE SumOfCounts(_)
SumOfCounts(records) ==
    IF records = <<>> THEN 0
    ELSE Head(records).n + SumOfCounts(Tail(records))

\* C28 (state part): when the main thread is at the read of the container the
\* download thread has ended and at most one of 'files' and 'error' is set;
\* every finished batch has one outcome record, and the total is the sum of
\* the counts of the batches reported as downloaded.
C28_State ==
    /\ dpc = "joined" =>
           /\ download_thread = "dead"
           /\ Cardinality(result_container.keys) <= 1
    /\ \A b \in FinishedBatches : Cardinality(OutcomesOf(b)) = 1
    /\ total_downloaded_count =
           SumOfCounts(SelectSeq(dlog, LAMBDA r : r.msg = "downloaded"))
    /\ dpc = "returned" => FinishedBatches = 1..Len(grouped_dates)

\* C28 (step part): when the container holds an error at the read, the batch
\* is reported as failed with that error, adds nothing to the total, and the
\* main thread goes on to the next batch.
C28_Step ==
    (dpc = "joined" /\ "error" \in result_container.keys) =>
        /\ total_downloaded_count' = total_downloaded_count
        /\ dlog' = Append(dlog, dlog'[Len(dlog')])
        /\ dlog'[Len(dlog')].batch = di
        /\ dlog'[Len(dlog')].msg \in BatchFailures
        /\ (dlog'[Len(dlog')].msg = "index_files_missing") <=>
               (result_container.error = "cant_open_index_file")
        /\ di' = di + 1
        /\ dpc' = "batch"

\* C28: the main thread reads the shared result container only after the
\* download thread of the batch has ended, when at most one of 'files' and
\* 'error' is set; an error captured in the worker is raised again in the
\* main thread, the batch adds nothing to the total, and the next monthly
\* batch is still attempted.
C28_ReadAfterThreadEnds == []C28_State /\ [][C28_Step]_vars

\* a finished run of two batches: the download of the first raised after it
\* had saved a file, the second was downloaded and counted
C28_Witness ==
    /\ dpc = "returned"
    /\ Len(grouped_dates) = 2
    /\ \E i, j \in 1..Len(dlog) :
         /\ i < j
         /\ dlog[i].msg = "unexpected_error" /\ dlog[i].batch = 1
         /\ dlog[j].msg = "downloaded" /\ dlog[j].batch = 2
         /\ total_downloaded_count = dlog[j].n
    /\ save_layout = "date_folder"
    /\ date_folders[grouped_dates[1][1]].has

\* C29 as stated: every date folder of a finished monthly batch that held a
\* GRIB2 file before the batch started still holds one.
C29_ReplacedNeverLost ==
    \A b \in FinishedBatches :
        \A k \in 1..Len(grouped_dates[b]) :
            date_folders[grouped_dates[b][k]].had =>
                date_folders[grouped_dates[b][k]].has

====
